---- MODULE Spec2Model ----
(***************************************************************************)
(* A model of the client side of eiproxy (package client): the token       *)
(* handshake, the tunnel reader and writer, the worker registry, the       *)
(* session supervisor and the retrying Run loop.                           *)
(*                                                                         *)
(* The module holds one specification per component.  Each specification   *)
(* moves the variables of its component and of the environment that        *)
(* component sees (the relay, the game, cancellation) and leaves the       *)
(* variables of the other components at their idle values.                 *)
(*                                                                         *)
(*   SpecToken    sendToken against a relay that ignores or answers        *)
(*   SpecRun      Run: the retry loop around RunWithoutRetries             *)
(*   SpecWriter   proxyMainLoopWriter with its ticker, in seconds          *)
(*   SpecRegistry getWorkerChan and the workers of one peer                *)
(*   SpecReader   proxyMainLoopReader: deadlines, probes, server timeout   *)
(*   SpecSession  RunWithoutRetries: supervisor, TCP proxy, UDP tunnel     *)
(***************************************************************************)
EXTENDS Integers, Sequences, FiniteSets, TLC

(***************************************************************************)
(* sendToken (client/proxy.go:119-148)                                     *)
(***************************************************************************)
VARIABLES
    tkPc,       \* where sendToken is: "write", "read", "sleep", "ok", "fail"
    tkClock,    \* milliseconds since SetWriteDeadline was called
    tkWrites,   \* token datagrams written to the tunnel socket so far
    tkIgnored,  \* token datagrams the relay left unanswered (the read timed out)
    tkJunk,     \* replies read that were not accepted as a keep-alive
    tkLast,     \* the last datagram read, or NoDatagram
    tkErr       \* the error sendToken returned, "" before and on success

tkVars == <<tkPc, tkClock, tkWrites, tkIgnored, tkJunk, tkLast, tkErr>>

(***************************************************************************)
(* Run and RunWithoutRetries as Run sees it (client/client.go:676-777)     *)
(***************************************************************************)
VARIABLES
    runPc,          \* "top", "session", "after", "sleep", "returned"
    runCtxDone,     \* the context passed to Run has been cancelled
    attempt,        \* Run's attempt counter
    lastSuccRunSet, \* !lastSuccRun.IsZero()
    runErr,         \* what Run returned: "nil" or the session's error
    runDelay,       \* seconds of the backoff wait in progress, 0 when none
    runReset,       \* the last pass through the loop took the recovery branch
    sessReadied,    \* the ready channel Run captured was closed by the session
    sessPre,        \* seconds the last session spent before closing ready
    sessPost,       \* seconds the last session ran after closing ready
    sessErr,        \* what the last RunWithoutRetries returned
    sessLate,       \* Run's context was cancelled before the session started
    reconnects      \* sessions started after a wait since the last recovery

runVars == <<runPc, runCtxDone, attempt, lastSuccRunSet, runErr,
             runDelay, runReset, sessReadied, sessPre, sessPost, sessErr,
             sessLate, reconnects>>

(***************************************************************************)
(* The tunnel of one session: the outbound queue and the context of the    *)
(* reader and the writer (client/proxy.go:60-90)                           *)
(***************************************************************************)
VARIABLES
    dataToServerCh, \* the outbound queue c.dataToServerCh, oldest item first
    childDone,      \* childCtx has been cancelled
    childCause,     \* context.Cause(childCtx): "" while alive, "canceled" or an error
    relayD          \* the relay's 'D' in answer to a 'd': 0 none, 1 on its
                    \* way to the client, 2 read by the reader

tunVars == <<dataToServerCh, childDone, childCause, relayD>>

(***************************************************************************)
(* proxyMainLoopWriter (client/proxy.go:232-262)                           *)
(***************************************************************************)
VARIABLES
    wrPc,           \* "select" while the writer loops, "done" once it returned
    wrErr,          \* the error the writer returned
    asyncTimerChan, \* the build has the timer channels of Go before 1.23
    wrTimer,        \* seconds until the ticker fires next
    wrTick,         \* a tick waits in ticker.C
    wrWrote,        \* what the last step wrote to the tunnel: "", "k" or "item"
    wrLast,         \* what the writer wrote last: "", "k" or "item"
    wrPrev,         \* what the writer wrote before that
    wrSinceWrite,   \* seconds since the writer last wrote (or started), capped
    wrSinceItem,    \* seconds since the writer last wrote an item, capped
    wrGap,          \* wrSinceWrite at the last write
    wrGapItem       \* wrSinceItem at the last write

wrVars == <<wrPc, wrErr, asyncTimerChan, wrTimer, wrTick, wrWrote, wrLast, wrPrev,
            wrSinceWrite, wrSinceItem, wrGap, wrGapItem>>

(***************************************************************************)
(* proxyMainLoopReader (client/proxy.go:150-230)                           *)
(***************************************************************************)
VARIABLES
    rdPc,           \* "idle", "start", "read", "probe", the exit steps
                    \* "exit_reset", "exit_cancel", "exit_wait", and "done"
    rdErr,          \* the error the reader returns
    rdElapsed,      \* seconds since lastSuccess, as of the last read timeout
    rdCancelled,    \* the reader has cancelled its own context
    rdProbes        \* read timeouts since lastSuccess that sent a probe

rdVars == <<rdPc, rdErr, rdElapsed, rdCancelled, rdProbes>>

(***************************************************************************)
(* The registry and its workers (client/proxy.go:264-416)                  *)
(***************************************************************************)
VARIABLES
    remoteAddrToDataCh, \* c.remoteAddrToDataCh: PeerAddr -> inbound channel
    remoteIPToLocalIP,  \* c.remoteIPToLocalIP: remote IP -> synthetic local IP
    nextLocalIP,        \* c.nextLocalIP
    nextCh,             \* channels made so far; a channel is named by its number
    chans,              \* channel -> number of payloads waiting in it
    workers,            \* channel -> the worker goroutine spawned for it
    masterUDP,          \* runMasterUDPProxy: st is "idle", "run", "failed" or
                        \* "done" for the one of this session, stale says
                        \* that one of an earlier session is still running
    gwcLast             \* the last call of getWorkerChan: its address and
                        \* the channel it returned

regVars == <<remoteAddrToDataCh, remoteIPToLocalIP, nextLocalIP, nextCh, chans,
             workers, masterUDP, gwcLast>>

(***************************************************************************)
(* One session: RunWithoutRetries with its two children,                   *)
(* runMasterTCPProxy and runProxyClient (client/client.go:717-777,         *)
(* client/master.go:20-91, client/proxy.go:44-117)                         *)
(***************************************************************************)
VARIABLES
    extDone,        \* the context handed to Run has been cancelled
    sessDone,       \* the context of the session has been cancelled
    sessCause,      \* context.Cause of it: "" while alive
    supPc,          \* RunWithoutRetries: "resolve", "connect", "spawn", "wait",
                    \* "join", "returned"
    supErr,         \* what RunWithoutRetries returns
    tcpPc,          \* runMasterTCPProxy: "idle", "listen", "accept", "done"
    tcpErr,         \* what it returned
    pxPc,           \* runProxyClient: "idle", "dial", "token", "running",
                    \* "drain_send", "drain_wait", "join", "done"
    pxRetry,        \* retry of the disconnect loop
    pxErr,          \* what runProxyClient returned
    graceful        \* Run's context was cancelled while the session was running

supVars == <<extDone, sessDone, sessCause, supPc, supErr, tcpPc, tcpErr,
             pxPc, pxRetry, pxErr, graceful>>

(***************************************************************************)
(* The ready signal and the published address: the fields c.ready,         *)
(* c.serverIP and c.port, and a call of GetProxyAddr                       *)
(* (client/client.go:645-658, 733-746, 779-786)                            *)
(***************************************************************************)
VARIABLES
    ready,          \* c.ready: the channel the field holds; a channel is
                    \* named by its number
    signalled,      \* the closed channels: signalled[n] is the address of
                    \* the session that closed channel n
    serverIP,       \* c.serverIP, 0 while nil
    port,           \* c.port
    sessNo,         \* calls of RunWithoutRetries so far
    gpaPc,          \* GetProxyAddr: "idle", "select", "ip", "port", "returned"
    gpaCh,          \* the channel its select waits on
    gpaIP,          \* the c.serverIP.IP it has read
    gpaRet          \* what it returned

sigVars == <<ready, signalled, serverIP, port, sessNo>>
gpaVars == <<gpaPc, gpaCh, gpaIP, gpaRet>>
rdyVars == <<sigVars, gpaVars>>

(***************************************************************************)
(* The codec of address-data frames (protocol/proxy.go:23-48)              *)
(***************************************************************************)
VARIABLES
    cdPc,           \* "idle", "in", "raw", "encoded" or "decoded"
    cdIn,           \* the arguments of EncodeAddrData: buf, addr, data
    cdFrame,        \* what EncodeAddrData did: it panicked, or its result
    cdOut           \* what DecodeAddrData did with that result

cdVars == <<cdPc, cdIn, cdFrame, cdOut>>

(***************************************************************************)
(* The user key: UserKey.String, UserKeyFromString, MarshalJSON,           *)
(* UnmarshalJSON and the normalizeKey of the application                   *)
(***************************************************************************)
VARIABLES
    ukPc,           \* "idle", "key", "str", "typed", "norm", "json" or "parsed"
    ukKey,          \* the key at hand: 10 bytes
    ukStr,          \* the string at hand: a sequence of characters
    ukFrom,         \* what the string parsed was: "str", "typed", "norm", "json"
    ukOut           \* what UserKeyFromString or UnmarshalJSON returned

ukVars == <<ukPc, ukKey, ukStr, ukFrom, ukOut>>

(***************************************************************************)
(* The datagrams themselves: what the channels of the registry carry, what *)
(* reaches the game, what the game sent and what went up the tunnel        *)
(***************************************************************************)
VARIABLES
    inbound,        \* the contents of the inbound channels: inbound[ch] is a
                    \* sequence of payloads, each with the header it came under
    toGame,         \* the last write to the game: the payload and the
                    \* header it came under, the address of the worker
                    \* that wrote it and the local address it wrote from
    fromGame,       \* fromGame[addr]: the datagrams the read leg of the
                    \* worker of addr has read, in order: sender and payload
    relayOut,       \* the frames the writer has written to the tunnel
    plCall          \* the last codec call: function, arguments, outcome

plVars == <<inbound, toGame, fromGame, relayOut, plCall>>

(***************************************************************************)
(* c.mut, the mutex of the registry (client.go:651, proxy.go:157-161,      *)
(* 383-384, 411-413)                                                       *)
(***************************************************************************)
VARIABLES
    mut,            \* who holds c.mut: a task, or "free"
    lkPc            \* lkPc[t]: where task t is

lkVars == <<mut, lkPc>>

vars == <<tkVars, runVars, tunVars, wrVars, rdVars, regVars, supVars, rdyVars,
          cdVars, ukVars, plVars, lkVars>>

\* What the actions of one component leave alone: the other components.
tkOthers == <<runVars, tunVars, wrVars, rdVars, regVars, supVars, rdyVars, cdVars, ukVars, plVars, lkVars>>
runOthers == <<tkVars, tunVars, wrVars, rdVars, regVars, supVars, rdyVars, cdVars, ukVars, plVars, lkVars>>
wrOthers == <<tkVars, runVars, rdVars, regVars, supVars, rdyVars, cdVars, ukVars, plVars, lkVars>>
rdOthers == <<tkVars, runVars, wrVars, supVars, rdyVars, cdVars, ukVars, plVars, lkVars>>
supOthers == <<tkVars, runVars, regVars, rdyVars, cdVars, ukVars, plVars, lkVars>>
supRest == <<tkVars, runVars, regVars, gpaVars, cdVars, ukVars, plVars, lkVars>>
gpaOthers == <<tkVars, runVars, tunVars, wrVars, rdVars, regVars, supVars, cdVars, ukVars, plVars, lkVars>>
cdOthers == <<tkVars, runVars, tunVars, wrVars, rdVars, regVars, supVars, rdyVars, ukVars, plVars, lkVars>>
ukOthers == <<tkVars, runVars, tunVars, wrVars, rdVars, regVars, supVars, rdyVars, cdVars, plVars, lkVars>>
plOthers == <<tkVars, runVars, supVars, rdyVars, cdVars, ukVars, lkVars>>
lkOthers == <<tkVars, runVars, tunVars, wrVars, rdVars, regVars, supVars, rdyVars, cdVars, ukVars, plVars>>

(***************************************************************************)
(* Byte tags of the tunnel (protocol/proxy.go:50-62) and datagrams.  A     *)
(* datagram is modelled by its length and its first byte.                  *)
(***************************************************************************)
ProxyClientRequestTypeKeepAlive == "k"
ProxyClientRequestTypeDisconnect == "d"
ProxyServerResponseTypeKeepAlive == "K"
ProxyServerResponseTypeDisconnect == "D"

\* protocol.AddrSize: 4 bytes of IPv4 and 2 of port
AddrSize == 6

\* A read that returned nothing yet.
NoDatagram == [len |-> -1, first |-> ""]

\* First bytes a datagram from the relay may carry: the two server tags and
\* a byte that is neither.
FirstBytes == {ProxyServerResponseTypeKeepAlive, ProxyServerResponseTypeDisconnect, "x"}

\* Lengths of datagrams the relay sends: empty, a control frame, the longest
\* control frame, the shortest address-data frame.
DatagramLens == {0, 1, AddrSize, AddrSize + 1}

\* An empty datagram leaves the read buffer as it was: its first byte is
\* not part of it.
Datagrams ==
    {[len |-> 0, first |-> ""]} \cup
    {[len |-> n, first |-> b] : n \in DatagramLens \ {0}, b \in FirstBytes}

(***************************************************************************)
(* sendToken                                                               *)
(***************************************************************************)
\* conn.SetWriteDeadline(now + 5 s), in milliseconds
TokenWriteDeadline == 5000
\* conn.SetReadDeadline(now + 100 ms), in milliseconds
TokenReadDeadline == 100
\* time.Sleep(100 ms), in milliseconds
TokenSleep == 100

TokenInit ==
    /\ tkPc = "write"
    /\ tkClock = 0
    /\ tkWrites = 0
    /\ tkIgnored = 0
    /\ tkJunk = 0
    /\ tkLast = NoDatagram
    /\ tkErr = ""

TokenIdle ==
    /\ tkPc = "idle"
    /\ tkClock = 0
    /\ tkWrites = 0
    /\ tkIgnored = 0
    /\ tkJunk = 0
    /\ tkLast = NoDatagram
    /\ tkErr = ""

\* The reply is taken for the relay's keep-alive: n > 0 && buf[0] == 'K'.
\* The variant without the test of the first byte comes first.
TokenAcceptedAny(d) == d.len > 0
TokenAccepted(d) == d.len > 0 /\ d.first = ProxyServerResponseTypeKeepAlive

\* The deadline set by SetWriteDeadline has passed: a write fails with
\* os.ErrDeadlineExceeded.  The variant in which writes have no deadline
\* comes first.
WriteDeadlineNever(clock) == FALSE
WriteDeadlinePassed(clock) == clock >= TokenWriteDeadline

\* conn.Write(token[:]): fails once the write deadline has passed, or with
\* an error of the network; otherwise one datagram leaves.
sendTokenWrite ==
    /\ tkPc = "write"
    /\ \/ /\ WriteDeadlinePassed(tkClock)
          /\ tkPc' = "fail"
          /\ tkErr' = "token: failed to write"
          /\ UNCHANGED tkWrites
       \/ /\ ~WriteDeadlinePassed(tkClock)
          /\ tkPc' = "fail"
          /\ tkErr' = "token: failed to write"
          /\ UNCHANGED tkWrites
       \/ /\ ~WriteDeadlinePassed(tkClock)
          /\ tkPc' = "read"
          /\ tkWrites' = tkWrites + 1
          /\ UNCHANGED tkErr
    /\ UNCHANGED <<tkClock, tkIgnored, tkJunk, tkLast>>
    /\ UNCHANGED tkOthers

\* conn.Read with a 100 ms deadline: the relay ignored the datagram (the
\* read times out), the read fails otherwise, or a datagram arrives.
sendTokenRead ==
    /\ tkPc = "read"
    /\ \/ /\ tkPc' = "sleep"
          /\ tkClock' = tkClock + TokenReadDeadline
          /\ tkIgnored' = tkIgnored + 1
          /\ UNCHANGED <<tkJunk, tkLast, tkErr>>
       \/ /\ tkPc' = "fail"
          /\ tkErr' = "token: failed to read"
          /\ UNCHANGED <<tkClock, tkIgnored, tkJunk, tkLast>>
       \/ \E d \in Datagrams :
            /\ tkLast' = d
            /\ IF TokenAccepted(d)
               THEN tkPc' = "ok" /\ UNCHANGED tkJunk
               ELSE tkPc' = "sleep" /\ tkJunk' = tkJunk + 1
            /\ UNCHANGED <<tkClock, tkIgnored, tkErr>>
    /\ UNCHANGED tkWrites
    /\ UNCHANGED tkOthers

\* time.Sleep(100 ms) at the end of an attempt that did not succeed.
sendTokenSleep ==
    /\ tkPc = "sleep"
    /\ tkPc' = "write"
    /\ tkClock' = tkClock + TokenSleep
    /\ UNCHANGED <<tkWrites, tkIgnored, tkJunk, tkLast, tkErr>>
    /\ UNCHANGED tkOthers

(***************************************************************************)
(* Run                                                                     *)
(***************************************************************************)
\* Largest number of seconds a phase of a session is let to last.
MaxSecs == 11
\* time.Since(lastRun) > 10*time.Second, in seconds
RecoverAfter == 10
\* attempt > 5
MaxAttempts == 5

\* Errors RunWithoutRetries returns: context.Canceled (the cause of a
\* cancelled session context, possibly wrapped) or an error of its own.
SessionErrors == {"canceled", "failed"}

RunInit ==
    /\ runPc = "top"
    /\ runCtxDone = FALSE
    /\ attempt = 0
    /\ lastSuccRunSet = FALSE
    /\ runErr = ""
    /\ runDelay = 0
    /\ runReset = FALSE
    /\ sessReadied = FALSE
    /\ sessPre = 0
    /\ sessPost = 0
    /\ sessErr = ""
    /\ sessLate = FALSE
    /\ reconnects = 0

RunIdle ==
    /\ runPc = "idle"
    /\ runCtxDone = FALSE
    /\ attempt = 0
    /\ lastSuccRunSet = FALSE
    /\ runErr = ""
    /\ runDelay = 0
    /\ runReset = FALSE
    /\ sessReadied = FALSE
    /\ sessPre = 0
    /\ sessPost = 0
    /\ sessErr = ""
    /\ sessLate = FALSE
    /\ reconnects = 0

\* The caller cancels the context passed to Run.
RunCancel ==
    /\ runPc \in {"top", "session", "after", "sleep"}
    /\ ~runCtxDone
    /\ runCtxDone' = TRUE
    /\ UNCHANGED <<runPc, attempt, lastSuccRunSet, runErr, runDelay,
                   runReset, sessReadied, sessPre, sessPost, sessErr,
                   sessLate, reconnects>>
    /\ UNCHANGED runOthers

\* Top of the loop: ready := c.ready; lastRun := time.Now(); the session starts.
RunStartSession ==
    /\ runPc = "top"
    /\ runPc' = "session"
    /\ sessReadied' = FALSE
    /\ sessPre' = 0
    /\ sessPost' = 0
    /\ sessErr' = ""
    /\ runReset' = FALSE
    /\ sessLate' = runCtxDone
    /\ reconnects' = IF attempt > 0 THEN reconnects + 1 ELSE reconnects
    /\ UNCHANGED <<runCtxDone, attempt, lastSuccRunSet, runErr, runDelay>>
    /\ UNCHANGED runOthers

\* RunWithoutRetries returns.  It fails before close(c.ready) (URL, DNS,
\* admission) after pre seconds, or closes ready and returns the cause of
\* its cancelled context post seconds later.  The cause is context.Canceled
\* when Run's context was cancelled or a child stopped cleanly first.
\* connect(ctx) fails on a context that is already cancelled, so that a
\* session started after the cancellation never closes ready.
RunWithoutRetriesReturns ==
    /\ runPc = "session"
    /\ runPc' = "after"
    /\ \E readied \in BOOLEAN, pre \in 0..MaxSecs, post \in 0..MaxSecs,
          err \in SessionErrors :
        /\ ~readied => post = 0
        /\ sessLate => ~readied
        /\ sessReadied' = readied
        /\ sessPre' = pre
        /\ sessPost' = post
        /\ sessErr' = err
    /\ UNCHANGED <<runCtxDone, attempt, lastSuccRunSet, runErr,
                   runDelay, runReset, sessLate, reconnects>>
    /\ UNCHANGED runOthers

\* err == nil || errors.Is(err, context.Canceled): Run returns nil.
\* The variant without the second disjunct comes first.
RunReturnsNilOnly(err) == err = "nil"
RunReturnsNil(err) == err \in {"nil", "canceled"}

\* The branch of Run's select that is taken: "done" (ctx.Done), "ready" or
\* "default".  Go takes any of the ready cases, default only when none is.
RunSelect ==
    (IF runCtxDone THEN {"done"} ELSE {}) \cup
    (IF sessReadied THEN {"ready"} ELSE {}) \cup
    (IF ~runCtxDone /\ ~sessReadied THEN {"default"} ELSE {})

\* Connection was successful last time: the ready case of the select was
\* taken and time.Since(lastRun) > 10 s, where lastRun was taken before
\* RunWithoutRetries was called (so the time before ready counts).
RecoveredAfterReady(branch) == branch = "ready" /\ sessPost > RecoverAfter
Recovered(branch) == branch = "ready" /\ sessPre + sessPost > RecoverAfter

\* lastSuccRun.IsZero(): no session of this Run has been recoverable.
NeverSucceededOrNotReady(succ) == ~succ \/ ~sessReadied
NeverSucceeded(succ) == ~succ

\* attempt > 5: Run gives up.  The variant that gives up one failure
\* later comes first.
GiveUpLate(att) == att > MaxAttempts + 1
GiveUp(att) == att > MaxAttempts

\* delay := time.Duration(1<<attempt) * time.Second, in seconds
Backoff(att) == 2 ^ att

\* The rest of a pass through Run's loop, after RunWithoutRetries returned.
RunAfterSession ==
    /\ runPc = "after"
    /\ IF RunReturnsNil(sessErr)
       THEN /\ runPc' = "returned"
            /\ runErr' = "nil"
            /\ UNCHANGED <<attempt, lastSuccRunSet, runDelay, runReset, reconnects>>
       ELSE \E branch \in RunSelect :
            IF branch = "done"
            THEN /\ runPc' = "returned"
                 /\ runErr' = sessErr
                 /\ UNCHANGED <<attempt, lastSuccRunSet, runDelay, runReset,
                                reconnects>>
            ELSE LET reset == Recovered(branch)
                     succ == lastSuccRunSet \/ reset
                     att == (IF reset THEN 0 ELSE attempt) + 1
                 IN /\ runReset' = reset
                    /\ lastSuccRunSet' = succ
                    /\ reconnects' = IF reset THEN 0 ELSE reconnects
                    /\ IF NeverSucceeded(succ)
                       THEN /\ runPc' = "returned"
                            /\ runErr' = sessErr
                            /\ UNCHANGED <<attempt, runDelay>>
                       ELSE /\ attempt' = att
                            /\ IF GiveUp(att)
                               THEN /\ runPc' = "returned"
                                    /\ runErr' = sessErr
                                    /\ UNCHANGED runDelay
                               ELSE /\ runPc' = "sleep"
                                    /\ runDelay' = Backoff(att)
                                    /\ UNCHANGED runErr
    /\ UNCHANGED <<runCtxDone, sessReadied, sessPre, sessPost, sessErr, sessLate>>
    /\ UNCHANGED runOthers

\* time.Sleep(delay) is over: the loop starts again.
RunSleepDone ==
    /\ runPc = "sleep"
    /\ runPc' = "top"
    /\ runDelay' = 0
    /\ UNCHANGED <<runCtxDone, attempt, lastSuccRunSet, runErr,
                   runReset, sessReadied, sessPre, sessPost, sessErr,
                   sessLate, reconnects>>
    /\ UNCHANGED runOthers

(***************************************************************************)
(* The tunnel: outbound queue and childCtx                                 *)
(***************************************************************************)
\* Capacity of the outbound queue in the model (dataChanSize is 1000).
OutboundCap == 2

\* What travels on the outbound queue: the session token (a probe of the
\* reader), the disconnect byte (the supervisor) and address-data frames
\* (the workers).
OutboundItems == {"token", ProxyClientRequestTypeDisconnect, "frame"}

TunnelInit ==
    /\ dataToServerCh = <<>>
    /\ childDone = FALSE
    /\ childCause = ""
    /\ relayD = 0

\* cancel(err) of a context.WithCancelCause: the first call settles the
\* cause, a nil error as context.Canceled; later calls change nothing.
\* The variant in which every call settles the cause comes first.
CancelCauseLast(done, cause, err) == IF err = "nil" THEN "canceled" ELSE err
CancelCause(done, cause, err) ==
    IF done THEN cause ELSE IF err = "nil" THEN "canceled" ELSE err

\* Errors are strings: "nil", "canceled" for context.Canceled, "closed" for
\* an error that wraps net.ErrClosed, and the message otherwise.
IsCancelledOrClosed(err) == err \in {"canceled", "closed"}
IgnoreCancelledOrClosed(err) ==
    IF err = "nil" \/ IsCancelledOrClosed(err) THEN "nil" ELSE err

\* The goroutine of run(): what cancel is called with after the child
\* returned err.
StoppedWith(prefix, err) ==
    IF IgnoreCancelledOrClosed(err) = "nil" THEN "nil" ELSE prefix \o ": " \o err

\* cancel(err) on childCtx.
CancelChildCtx(err) ==
    /\ childDone' = TRUE
    /\ childCause' = CancelCause(childDone, childCause, err)

\* A worker (or the master UDP proxy) puts a frame on the outbound queue:
\* select { case c.dataToServerCh <- data: default: }.  With the queue full
\* the frame is dropped and the sender goes on.
\* The variant with the plain send c.dataToServerCh <- data, which waits
\* for room in the queue, comes first.
EnqueueFrameBlocking ==
    /\ Len(dataToServerCh) < OutboundCap
    /\ dataToServerCh' = Append(dataToServerCh, "frame")
    /\ UNCHANGED <<childDone, childCause, relayD>>
EnqueueFrame ==
    /\ dataToServerCh' = IF Len(dataToServerCh) < OutboundCap
                         THEN Append(dataToServerCh, "frame")
                         ELSE dataToServerCh
    /\ UNCHANGED <<childDone, childCause, relayD>>

\* childCtx is cancelled from outside the writer: the reader stopped or
\* runProxyClient returned.
CancelChild ==
    /\ ~childDone
    /\ CancelChildCtx("nil")
    /\ UNCHANGED <<dataToServerCh, relayD>>

(***************************************************************************)
(* proxyMainLoopWriter                                                     *)
(***************************************************************************)
\* keepAliveInterval, in seconds
KeepAliveInterval == 3

WriterInit ==
    /\ wrPc = "select"
    /\ wrErr = ""
    /\ asyncTimerChan \in BOOLEAN
    /\ wrTimer = KeepAliveInterval
    /\ wrTick = FALSE
    /\ wrWrote = ""
    /\ wrLast = ""
    /\ wrPrev = ""
    /\ wrSinceWrite = 0
    /\ wrSinceItem = KeepAliveInterval + 1
    /\ wrGap = 0
    /\ wrGapItem = 0

WriterIdle ==
    /\ wrPc = "idle"
    /\ wrErr = ""
    /\ asyncTimerChan = FALSE
    /\ wrTimer = KeepAliveInterval
    /\ wrTick = FALSE
    /\ wrWrote = ""
    /\ wrLast = ""
    /\ wrPrev = ""
    /\ wrSinceWrite = 0
    /\ wrSinceItem = KeepAliveInterval + 1
    /\ wrGap = 0
    /\ wrGapItem = 0

\* One more second, capped above the keep-alive interval.
Later(t) == IF t > KeepAliveInterval THEN t ELSE t + 1

\* ticker.Reset(keepAliveInterval): the period starts again.  A tick that
\* already waits in ticker.C stays there on a build with the timer channels
\* of Go before 1.23; from Go 1.23 on Reset leaves no stale tick behind.
TickAfterReset(tick) == tick /\ asyncTimerChan

\* The writer wrote what to the tunnel: the bookkeeping of the gaps.
WriterWrote(what) ==
    /\ wrWrote' = what
    /\ wrLast' = what
    /\ wrPrev' = wrLast
    /\ wrGap' = wrSinceWrite
    /\ wrGapItem' = wrSinceItem
    /\ wrSinceWrite' = 0
    /\ wrSinceItem' = IF what = "item" THEN 0 ELSE wrSinceItem

\* The writer returns err, and the goroutine of run() cancels childCtx.
WriterReturn(err) ==
    /\ wrPc' = "done"
    /\ wrErr' = err
    /\ CancelChildCtx(StoppedWith("main loop writer", err))

\* conn.Write(data) failed: on the socket closed after childCtx is done,
\* or for the network.
WriterWriteFailed ==
    /\ \/ childDone /\ WriterReturn("closed")
       \/ WriterReturn("main-loop: failed to write")
    /\ UNCHANGED <<wrWrote, wrLast, wrPrev, wrGap, wrGapItem, wrSinceWrite, wrSinceItem>>

\* The writer wrote what and goes on.
WriterGoesOn(what) ==
    /\ WriterWrote(what)
    /\ UNCHANGED <<wrPc, wrErr, childDone, childCause>>

\* The relay receives a 'd': its 'D' is on the way unless the relay does
\* not answer or the datagram is lost.
RelayAnswers(item) ==
    \/ item = ProxyClientRequestTypeDisconnect /\ relayD' = 1
    \/ UNCHANGED relayD

\* case data, ok = <-c.dataToServerCh: the ticker is reset, the item written.
WriterItem ==
    /\ wrPc = "select"
    /\ dataToServerCh # <<>>
    /\ dataToServerCh' = Tail(dataToServerCh)
    /\ wrTimer' = KeepAliveInterval
    /\ wrTick' = TickAfterReset(wrTick)
    /\ \/ WriterGoesOn("item") /\ RelayAnswers(Head(dataToServerCh))
       \/ WriterWriteFailed /\ UNCHANGED relayD
    /\ UNCHANGED asyncTimerChan
    /\ UNCHANGED wrOthers

\* case <-ticker.C: one keep-alive byte is written.
WriterTick ==
    /\ wrPc = "select"
    /\ wrTick
    /\ wrTick' = FALSE
    /\ \/ WriterGoesOn(ProxyClientRequestTypeKeepAlive)
       \/ WriterWriteFailed
    /\ UNCHANGED <<dataToServerCh, relayD, asyncTimerChan, wrTimer>>
    /\ UNCHANGED wrOthers

\* case <-ctx.Done(): return ctx.Err().
WriterCancelled ==
    /\ wrPc = "select"
    /\ childDone
    /\ WriterReturn("canceled")
    /\ UNCHANGED <<dataToServerCh, relayD, asyncTimerChan, wrTimer, wrTick, wrWrote, wrLast, wrPrev,
                   wrSinceWrite, wrSinceItem, wrGap, wrGapItem>>
    /\ UNCHANGED wrOthers

\* A second passes.  The writer takes what is ready before time moves on:
\* its own steps take no time at this scale.  The ticker fires when its
\* period is over; ticker.C holds one tick at most.
WriterSecond ==
    /\ wrPc = "select"
    /\ ~wrTick /\ dataToServerCh = <<>> /\ ~childDone
    /\ IF wrTimer = 1
       THEN wrTimer' = KeepAliveInterval /\ wrTick' = TRUE
       ELSE wrTimer' = wrTimer - 1 /\ UNCHANGED wrTick
    /\ wrSinceWrite' = Later(wrSinceWrite)
    /\ wrSinceItem' = Later(wrSinceItem)
    /\ wrWrote' = ""
    /\ UNCHANGED <<tunVars, wrPc, wrErr, asyncTimerChan, wrLast, wrPrev, wrGap, wrGapItem>>
    /\ UNCHANGED wrOthers

\* The environment of the writer: frames arrive on the queue, the session
\* context is cancelled.
WriterEnqueue == EnqueueFrame /\ wrWrote' = "" /\
    UNCHANGED <<wrPc, wrErr, asyncTimerChan, wrTimer, wrTick, wrLast, wrPrev,
                wrSinceWrite, wrSinceItem, wrGap, wrGapItem>> /\ UNCHANGED wrOthers
WriterCancel == CancelChild /\ UNCHANGED wrVars /\ UNCHANGED wrOthers

(***************************************************************************)
(* The registry: getWorkerChan                                             *)
(***************************************************************************)
\* Channels made in a run of the model.
MaxChans == 3

\* Capacity of an inbound channel in the model (dataChanSize is 1000).
InboundCap == 2

\* The peers the relay forwards frames from: an IP and a port each.
PeerAddrs == {[ip |-> 1, port |-> 1], [ip |-> 1, port |-> 2], [ip |-> 2, port |-> 1]}

\* c.masterAddr and the channel made for it by the reader.
MasterAddr == [ip |-> 0, port |-> 0]
MasterCh == 0

NoAddr == [ip |-> -1, port |-> -1]
NoCall == [addr |-> NoAddr, ch |-> -1]

\* An IPv4 address is its 32-bit number.  New() leaves nextLocalIP at its
\* zero value; ipv4.Next adds one (the wrap after 2^32 addresses is out of
\* reach of MaxChans channels).
LocalIPStart == 0
NextIP(ip) == ip + 1

\* A function without the argument k, and with the value v at k.
Without(f, k) == [x \in DOMAIN f \ {k} |-> f[x]]
With(f, k, v) == [x \in DOMAIN f \cup {k} |-> IF x = k THEN v ELSE f[x]]
EmptyMap == <<>>

RegistryInit ==
    /\ remoteAddrToDataCh = EmptyMap
    /\ remoteIPToLocalIP = EmptyMap
    /\ nextLocalIP = LocalIPStart
    /\ nextCh = 0
    /\ chans = EmptyMap
    /\ workers = EmptyMap
    /\ masterUDP = [st |-> "idle", stale |-> FALSE]
    /\ gwcLast = NoCall

\* if dataCh, ok := c.remoteAddrToDataCh[addr4]; ok
\* The variant in which the lookup never finds an entry comes first.
HasWorkerChanNever(addr) == FALSE
HasWorkerChan(addr) == addr \in DOMAIN remoteAddrToDataCh

\* localIP, ok := c.remoteIPToLocalIP[addr4.ip]
\* The variant in which the lookup never finds an entry comes first.
KnownRemoteIPNever(ip) == FALSE
KnownRemoteIP(ip) == ip \in DOMAIN remoteIPToLocalIP

\* ipv4 is [4]byte and Next goes through binary.BigEndian: the bytes of
\* the 32-bit number, most significant first.
ToIP(n) == <<n \div 16777216, (n \div 65536) % 256, (n \div 256) % 256, n % 256>>

\* The context of the workers: the one the reader derives from childCtx.
WorkerCtxDone == rdCancelled \/ childDone

\* A channel that has been closed holds ChanClosed in place of a count.
ChanClosed == -1
IsClosed(ch) == ch \in DOMAIN chans /\ chans[ch] = ChanClosed

\* select { case dataCh <- payload: default: }: the channels after the
\* send.  A channel that is full, or that nobody holds any more, is left
\* as it is.
SendNonBlocking(ch) ==
    IF ch \in DOMAIN chans /\ ~IsClosed(ch) /\ chans[ch] < InboundCap
    THEN [chans EXCEPT ![ch] = @ + 1]
    ELSE chans

\* getWorkerChan(ctx, wg, addr) under c.mut, followed by the non-blocking
\* sends of sent payloads to the channel it returned.
getWorkerChanAnd(addr, sent) ==
    IF HasWorkerChan(addr)
    THEN LET ch == remoteAddrToDataCh[addr] IN
         /\ gwcLast' = [addr |-> addr, ch |-> ch]
         /\ chans' = IF sent = 1 THEN SendNonBlocking(ch) ELSE chans
         /\ UNCHANGED <<remoteAddrToDataCh, remoteIPToLocalIP, nextLocalIP,
                        nextCh, workers>>
    ELSE LET ch == nextCh + 1
             known == KnownRemoteIP(addr.ip)
             localIP == IF known THEN remoteIPToLocalIP[addr.ip] ELSE nextLocalIP
         IN
         /\ nextCh < MaxChans
         /\ nextCh' = ch
         /\ nextLocalIP' = IF known THEN nextLocalIP ELSE NextIP(localIP)
         /\ remoteIPToLocalIP' = With(remoteIPToLocalIP, addr.ip, localIP)
         /\ remoteAddrToDataCh' = With(remoteAddrToDataCh, addr, ch)
         /\ workers' = With(workers, ch,
                [addr |-> addr, localIP |-> localIP, st |-> "listen",
                 rleg |-> "run", wleg |-> "run", closed |-> FALSE,
                 timedOut |-> FALSE])
         /\ chans' = With(chans, ch, sent)
         /\ gwcLast' = [addr |-> addr, ch |-> ch]

\* The call and the send of the reader in one step.
getWorkerChan(addr) == getWorkerChanAnd(addr, 1)

(***************************************************************************)
(* handleWorker and the goroutine around it                                *)
(***************************************************************************)
WorkerStep(w, rec) ==
    /\ workers' = [workers EXCEPT ![w] = rec]
    /\ UNCHANGED <<remoteAddrToDataCh, remoteIPToLocalIP, nextLocalIP, nextCh,
                   masterUDP, gwcLast>>

\* lc.ListenPacket(ctx, "udp4", localIP:0): the socket is there, or the
\* worker fails with "worker: failed to listen".
WorkerListen(w) ==
    /\ workers[w].st = "listen"
    /\ \/ WorkerStep(w, [workers[w] EXCEPT !.st = "run"])
       \/ WorkerStep(w, [workers[w] EXCEPT !.st = "finished"])
    /\ UNCHANGED <<chans, tunVars, rdVars>>
    /\ UNCHANGED rdOthers

\* go func() { <-ctx.Done(); pc.Close() }()
WorkerCtxClose(w) ==
    /\ workers[w].st = "run"
    /\ WorkerCtxDone
    /\ ~workers[w].closed
    /\ WorkerStep(w, [workers[w] EXCEPT !.closed = TRUE])
    /\ UNCHANGED <<chans, tunVars, rdVars>>
    /\ UNCHANGED rdOthers

\* The leg from the relay to the game: select on ctx.Done() and dataCh,
\* then conn.WriteToUDP.  A write on the closed socket ends the leg, any
\* other failure is logged.  The leg closes the socket when it returns.
WorkerWriteLeg(w) ==
    /\ workers[w].st = "run"
    /\ workers[w].wleg = "run"
    /\ \/ /\ WorkerCtxDone
          /\ WorkerStep(w, [workers[w] EXCEPT !.wleg = "done", !.closed = TRUE])
          /\ UNCHANGED chans
       \/ /\ chans[w] > 0
          /\ chans' = [chans EXCEPT ![w] = @ - 1]
          /\ IF workers[w].closed
             THEN WorkerStep(w, [workers[w] EXCEPT !.wleg = "done"])
             ELSE WorkerStep(w, workers[w])
    /\ UNCHANGED <<tunVars, rdVars>>
    /\ UNCHANGED rdOthers

\* The leg from the game to the relay: a 30 s read deadline, then
\* conn.ReadFromUDP.  The leg closes the socket when it returns.
WorkerReadLeg(w) ==
    /\ workers[w].st = "run"
    /\ workers[w].rleg = "run"
    /\ \/ \* the socket is closed
          /\ workers[w].closed
          /\ WorkerStep(w, [workers[w] EXCEPT !.rleg = "done"])
          /\ UNCHANGED tunVars
       \/ \* os.ErrDeadlineExceeded: no datagram for 30 s
          /\ ~workers[w].closed
          /\ WorkerStep(w, [workers[w] EXCEPT !.rleg = "done", !.closed = TRUE,
                                             !.timedOut = TRUE])
          /\ UNCHANGED tunVars
       \/ \* another read error
          /\ ~workers[w].closed
          /\ WorkerStep(w, [workers[w] EXCEPT !.rleg = "done", !.closed = TRUE])
          /\ UNCHANGED tunVars
       \/ \* a datagram of the game: encoded and queued unless the queue is full
          /\ ~workers[w].closed
          /\ WorkerStep(w, workers[w])
          /\ EnqueueFrame
    /\ UNCHANGED <<chans, rdVars>>
    /\ UNCHANGED rdOthers

\* wg.Wait() in handleWorker: both legs are done, handleWorker returns.
WorkerReturns(w) ==
    /\ workers[w].st = "run"
    /\ workers[w].rleg = "done"
    /\ workers[w].wleg = "done"
    /\ WorkerStep(w, [workers[w] EXCEPT !.st = "finished"])
    /\ UNCHANGED <<chans, tunVars, rdVars>>
    /\ UNCHANGED rdOthers

\* The goroutine of a worker does not close its channel when it ends.  The
\* variant that closes it after the delete comes first.
ClosesDataChAfterDelete(w) == TRUE
ClosesDataCh(w) == FALSE

\* After handleWorker: delete(c.remoteAddrToDataCh, addr4) under c.mut,
\* then wg.Done().  The channel is left to the garbage collector.
WorkerDelete(w) ==
    /\ workers[w].st = "finished"
    /\ remoteAddrToDataCh' = Without(remoteAddrToDataCh, workers[w].addr)
    /\ workers' = Without(workers, w)
    /\ chans' = IF ClosesDataCh(w)
                THEN [chans EXCEPT ![w] = ChanClosed]
                ELSE Without(chans, w)
    /\ UNCHANGED <<remoteIPToLocalIP, nextLocalIP, nextCh, masterUDP, gwcLast>>
    /\ UNCHANGED <<tunVars, rdVars>>
    /\ UNCHANGED rdOthers

\* The leg of runMasterUDPProxy from the relay to the game: select on
\* ctx.Done() and dataToGameCh, then conn.WriteToUDP from 127.0.0.1:28004.
\* The legs run until the proxy has noticed that its context is done.
MasterUDPWriteLeg ==
    /\ masterUDP.st = "run"
    /\ chans[MasterCh] > 0
    /\ chans' = [chans EXCEPT ![MasterCh] = @ - 1]
    /\ UNCHANGED <<remoteAddrToDataCh, remoteIPToLocalIP, nextLocalIP, nextCh,
                   workers, masterUDP, gwcLast>>
    /\ UNCHANGED <<tunVars, rdVars>>
    /\ UNCHANGED rdOthers

\* The leg of runMasterUDPProxy from the game to the relay: conn.ReadFromUDP
\* with no deadline, then the frame with the address of the master is
\* queued unless the queue is full.
MasterUDPReadLeg ==
    /\ masterUDP.st = "run"
    /\ EnqueueFrame
    /\ UNCHANGED <<regVars, rdVars>>
    /\ UNCHANGED rdOthers

\* runMasterUDPProxy ends once its context is done.
MasterUDPStops ==
    /\ masterUDP.st = "run"
    /\ WorkerCtxDone
    /\ masterUDP' = [masterUDP EXCEPT !.st = "done"]
    /\ UNCHANGED <<remoteAddrToDataCh, remoteIPToLocalIP, nextLocalIP, nextCh,
                   chans, workers, gwcLast>>
    /\ UNCHANGED <<tunVars, rdVars>>
    /\ UNCHANGED rdOthers

(***************************************************************************)
(* proxyMainLoopReader                                                     *)
(***************************************************************************)
\* The read deadline of the reader and the silence after which the relay
\* counts as gone, in seconds.
ReadDeadline == 10
ServerTimeout == 30

\* How much later than its deadline a read timeout may be noticed, in
\* seconds: the scheduler, and the wait of an earlier probe for the queue.
MaxJitter == 1

\* What the reader may read from the tunnel: a datagram with its length,
\* its first byte and, from AddrSize bytes on, the address it starts with.
ReaderDatagrams ==
    {[len |-> 0, first |-> "", addr |-> NoAddr]}
    \cup {[len |-> 1, first |-> b, addr |-> NoAddr] : b \in FirstBytes}
    \cup {[len |-> n, first |-> b, addr |-> a] :
            n \in {AddrSize, AddrSize + 1}, b \in FirstBytes, a \in PeerAddrs}

ReaderIdle ==
    /\ rdPc = "idle"
    /\ rdErr = ""
    /\ rdElapsed = 0
    /\ rdCancelled = FALSE
    /\ rdProbes = 0

\* run(c.proxyMainLoopReader, ...) with a fresh childCtx.
ReaderLaunched ==
    /\ rdPc = "start"
    /\ rdErr = ""
    /\ rdElapsed = 0
    /\ rdCancelled = FALSE
    /\ rdProbes = 0

\* The reader returns err: its deferred calls run next.
ReaderReturn(err) ==
    /\ rdPc' = "exit_reset"
    /\ rdErr' = err

\* lc.ListenPacket(ctx, "udp4", proxyMasterAddr) of runMasterUDPProxy: the
\* address is taken while a proxy of an earlier session holds it, and the
\* goroutine then logs "failed to listen" and ends.
MasterUDPListen(stale) == IF stale THEN "failed" ELSE "run"

\* The first lines of the reader: the entry and the channel of the master
\* address, runMasterUDPProxy in its goroutine, lastSuccess := now.
ReaderStart ==
    /\ rdPc = "start"
    /\ rdPc' = "read"
    /\ rdElapsed' = 0
    /\ rdProbes' = 0
    /\ remoteAddrToDataCh' = With(remoteAddrToDataCh, MasterAddr, MasterCh)
    /\ chans' = With(chans, MasterCh, 0)
    /\ masterUDP' = [masterUDP EXCEPT !.st = MasterUDPListen(masterUDP.stale)]
    /\ UNCHANGED <<rdErr, rdCancelled>>
    /\ UNCHANGED <<remoteIPToLocalIP, nextLocalIP, nextCh, workers, gwcLast>>
    /\ UNCHANGED tunVars
    /\ UNCHANGED rdOthers

\* time.Since(lastSuccess) > 30*time.Second
\* The variant with >= in place of > comes first.
ServerGoneAtThreshold(elapsed) == elapsed >= ServerTimeout
ServerGone(elapsed) == elapsed > ServerTimeout

\* conn.Read ends with os.ErrDeadlineExceeded, jitter seconds late.
ReaderTimeout ==
    /\ rdPc = "read"
    /\ \E jitter \in 0..MaxJitter :
         LET elapsed == rdElapsed + ReadDeadline + jitter IN
         /\ rdElapsed' = elapsed
         /\ IF ServerGone(elapsed)
            THEN ReaderReturn("main-loop: server stopped responding")
            ELSE rdPc' = "probe" /\ UNCHANGED rdErr
    /\ UNCHANGED <<rdCancelled, rdProbes>>
    /\ UNCHANGED <<tunVars, regVars>>
    /\ UNCHANGED rdOthers

\* select { case <-ctx.Done(): return ctx.Err()
\*          case c.dataToServerCh <- c.token[:]: }
ReaderProbe ==
    /\ rdPc = "probe"
    /\ \/ /\ WorkerCtxDone
          /\ ReaderReturn("canceled")
          /\ UNCHANGED <<dataToServerCh, rdProbes>>
       \/ /\ Len(dataToServerCh) < OutboundCap
          /\ dataToServerCh' = Append(dataToServerCh, "token")
          /\ rdPc' = "read"
          /\ rdProbes' = rdProbes + 1
          /\ UNCHANGED rdErr
    /\ UNCHANGED <<childDone, childCause, relayD, rdElapsed, rdCancelled>>
    /\ UNCHANGED regVars
    /\ UNCHANGED rdOthers

\* n > protocol.AddrSize: the datagram is an address-data frame.
IsAddrData(d) == d.len > AddrSize

\* conn.Read returns a datagram: lastSuccess := now, then the datagram is
\* dropped (empty), handed to the worker of its address (address-data) or
\* taken for a control byte.
ReaderOnDatagram(d) ==
    /\ rdPc = "read"
    /\ rdElapsed' = 0
    /\ rdProbes' = 0
    /\ IF d.len = 0
       THEN UNCHANGED <<rdPc, rdErr, regVars>>
       ELSE IF IsAddrData(d)
       THEN /\ getWorkerChan(d.addr)
            /\ UNCHANGED <<rdPc, rdErr, masterUDP>>
       ELSE /\ IF d.first = ProxyServerResponseTypeDisconnect
               THEN ReaderReturn("nil")
               ELSE UNCHANGED <<rdPc, rdErr>>
            /\ UNCHANGED regVars
    /\ UNCHANGED rdCancelled
    /\ UNCHANGED <<dataToServerCh, childDone, childCause>>
    /\ UNCHANGED rdOthers

\* A datagram the relay sends of its own accord, or forwards.
ReaderDatagram(d) == ReaderOnDatagram(d) /\ UNCHANGED relayD

\* The 'D' the relay sent in answer to a 'd'.
DisconnectAnswer ==
    [len |-> 1, first |-> ProxyServerResponseTypeDisconnect, addr |-> NoAddr]
ReaderAnswer ==
    /\ relayD = 1
    /\ relayD' = 2
    /\ ReaderOnDatagram(DisconnectAnswer)

\* conn.Read fails otherwise: on the tunnel socket closed after childCtx
\* is done, or for the network.
ReaderReadError ==
    /\ rdPc = "read"
    /\ \/ childDone /\ ReaderReturn("closed")
       \/ ReaderReturn("main-loop: failed to read")
    /\ UNCHANGED <<rdElapsed, rdCancelled, rdProbes>>
    /\ UNCHANGED <<tunVars, regVars>>
    /\ UNCHANGED rdOthers

\* The deferred calls of the reader, last registered first: the registry
\* is replaced by an empty map under c.mut,
ReaderExitReset ==
    /\ rdPc = "exit_reset"
    /\ rdPc' = "exit_cancel"
    /\ remoteAddrToDataCh' = EmptyMap
    /\ UNCHANGED <<remoteIPToLocalIP, nextLocalIP, nextCh, chans, workers,
                   masterUDP, gwcLast>>
    /\ UNCHANGED <<rdErr, rdElapsed, rdCancelled, rdProbes>>
    /\ UNCHANGED tunVars
    /\ UNCHANGED rdOthers

\* the context of the workers is cancelled with the reader's error,
ReaderExitCancel ==
    /\ rdPc = "exit_cancel"
    /\ rdPc' = "exit_wait"
    /\ rdCancelled' = TRUE
    /\ UNCHANGED <<rdErr, rdElapsed, rdProbes>>
    /\ UNCHANGED <<tunVars, regVars>>
    /\ UNCHANGED rdOthers

\* and wg.Wait() returns once every worker goroutine is done.  Then the
\* goroutine started by run() cancels childCtx with what the reader
\* returned, unless that is nil, a cancellation or a closed socket.
ReaderExitWait ==
    /\ rdPc = "exit_wait"
    /\ DOMAIN workers = {}
    /\ rdPc' = "done"
    /\ CancelChildCtx(StoppedWith("main loop reader", rdErr))
    /\ UNCHANGED <<rdErr, rdElapsed, rdCancelled, rdProbes>>
    /\ UNCHANGED <<dataToServerCh, relayD>>
    /\ UNCHANGED regVars
    /\ UNCHANGED rdOthers

\* The call of getWorkerChan and the send that follows it, as two steps:
\* c.mut is released when getWorkerChan returns, and the workers may run
\* before the reader sends.
ReaderLookup(d) ==
    /\ rdPc = "read"
    /\ IsAddrData(d)
    /\ rdPc' = "send"
    /\ rdElapsed' = 0
    /\ rdProbes' = 0
    /\ getWorkerChanAnd(d.addr, 0)
    /\ UNCHANGED <<rdErr, rdCancelled, masterUDP>>
    /\ UNCHANGED tunVars
    /\ UNCHANGED rdOthers

\* select { case dataCh <- append([]byte(nil), data...): default: }
ReaderSend ==
    /\ rdPc = "send"
    /\ rdPc' = "read"
    /\ chans' = SendNonBlocking(gwcLast.ch)
    /\ UNCHANGED <<remoteAddrToDataCh, remoteIPToLocalIP, nextLocalIP, nextCh,
                   workers, masterUDP, gwcLast>>
    /\ UNCHANGED <<rdErr, rdElapsed, rdCancelled, rdProbes>>
    /\ UNCHANGED tunVars
    /\ UNCHANGED rdOthers

\* The rest of the session as the registry sees it: the writer of the
\* session takes an item off the outbound queue and writes it to the
\* tunnel, childCtx is cancelled by the writer or by runProxyClient, and
\* after the session the Run loop starts the next one with a fresh
\* childCtx, a new writer and the same client: the queue, made in New(),
\* is the one of the session before.
RegistryDrain ==
    /\ dataToServerCh # <<>>
    /\ dataToServerCh' = Tail(dataToServerCh)
    /\ wrWrote' = Head(dataToServerCh)
    /\ UNCHANGED <<childDone, childCause, relayD, rdVars, regVars>>
    /\ UNCHANGED <<wrPc, wrErr, asyncTimerChan, wrTimer, wrTick, wrLast, wrPrev,
                   wrSinceWrite, wrSinceItem, wrGap, wrGapItem>>
    /\ UNCHANGED <<tkVars, runVars, supVars, rdyVars, cdVars, ukVars, plVars, lkVars>>
RegistryCancel == CancelChild /\ UNCHANGED <<rdVars, regVars>> /\ UNCHANGED rdOthers
\* The goroutine of runMasterUDPProxy is not in the reader's WaitGroup: it
\* may be running when the reader has returned.
StillRunning(m) == m.stale \/ m.st = "run"

RegistryRelaunch ==
    /\ rdPc = "done"
    /\ rdPc' = "start"
    /\ rdErr' = ""
    /\ rdElapsed' = 0
    /\ rdProbes' = 0
    /\ rdCancelled' = FALSE
    /\ childDone' = FALSE
    /\ childCause' = ""
    /\ masterUDP' = [st |-> "idle", stale |-> StillRunning(masterUDP)]
    /\ wrWrote' = ""
    /\ UNCHANGED <<remoteAddrToDataCh, remoteIPToLocalIP, nextLocalIP, nextCh,
                   chans, workers, gwcLast>>
    /\ UNCHANGED <<dataToServerCh, relayD>>
    /\ UNCHANGED <<wrPc, wrErr, asyncTimerChan, wrTimer, wrTick, wrLast, wrPrev,
                   wrSinceWrite, wrSinceItem, wrGap, wrGapItem>>
    /\ UNCHANGED <<tkVars, runVars, supVars, rdyVars, cdVars, ukVars, plVars, lkVars>>

\* The runMasterUDPProxy of an earlier session, whose context is done,
\* ends: nothing waits for it.
StaleMasterUDPStops ==
    /\ masterUDP.stale
    /\ masterUDP' = [masterUDP EXCEPT !.stale = FALSE]
    /\ UNCHANGED <<remoteAddrToDataCh, remoteIPToLocalIP, nextLocalIP, nextCh,
                   chans, workers, gwcLast>>
    /\ UNCHANGED <<tunVars, rdVars>>
    /\ UNCHANGED rdOthers

(***************************************************************************)
(* One session: RunWithoutRetries, runMasterTCPProxy, runProxyClient       *)
(***************************************************************************)
\* for retry := 0; retry < 10; retry++
DrainRetries == 10

SessionIdle ==
    /\ extDone = FALSE
    /\ sessDone = FALSE
    /\ sessCause = ""
    /\ supPc = "idle"
    /\ supErr = ""
    /\ tcpPc = "idle"
    /\ tcpErr = ""
    /\ pxPc = "idle"
    /\ pxRetry = 0
    /\ pxErr = ""
    /\ graceful = FALSE

\* New() has made the first ready channel; nothing is resolved yet and
\* GetProxyAddr has not been called.
ReadyInit ==
    /\ ready = 1
    /\ signalled = <<>>
    /\ serverIP = 0
    /\ port = 0
    /\ sessNo = 0
    /\ gpaPc = "idle"
    /\ gpaCh = 0
    /\ gpaIP = 0
    /\ gpaRet = ""

\* Run has called RunWithoutRetries.
SessionInit ==
    /\ extDone = FALSE
    /\ sessDone = FALSE
    /\ sessCause = ""
    /\ supPc = "resolve"
    /\ supErr = ""
    /\ tcpPc = "idle"
    /\ tcpErr = ""
    /\ pxPc = "idle"
    /\ pxRetry = 0
    /\ pxErr = ""
    /\ graceful = FALSE

\* cancel(err) on the context of the session.
CancelSession(err) ==
    /\ sessDone' = TRUE
    /\ sessCause' = CancelCause(sessDone, sessCause, err)

\* The session is RUNNING: the tunnel client waits in its first select
\* with the reader and the writer at work.
Running == pxPc = "running" /\ ~sessDone /\ ~childDone

\* The caller of Run cancels its context.  The context of the session is
\* derived from it and is cancelled with it, with context.Canceled.
ExternalCancel ==
    /\ ~extDone
    /\ supPc # "returned"
    /\ extDone' = TRUE
    /\ graceful' = Running
    /\ IF supPc \in {"resolve", "connect", "spawn"}
       THEN UNCHANGED <<sessDone, sessCause>>
       ELSE CancelSession("nil")
    /\ UNCHANGED <<supPc, supErr, tcpPc, tcpErr, pxPc, pxRetry, pxErr>>
    /\ UNCHANGED <<tunVars, wrVars, rdVars>>
    /\ UNCHANGED supOthers

\* Addresses the server's name resolves to and ports the relay hands out.
ServerIPs == {1, 2}
Ports == {1, 2}

\* fmt.Sprintf("%s:%d", c.serverIP.IP, c.port)
ProxyAddr(ip, p) == ToString(ip) \o ":" \o ToString(p)

\* The channel has been closed.
Closed(ch) == ch \in DOMAIN signalled

\* url.Parse and the two name resolutions: c.serverIP is set, or the
\* session returns the error.  They do not look at the context.
SupResolve(ip) ==
    /\ supPc = "resolve"
    /\ \/ /\ supPc' = "connect"
          /\ serverIP' = ip
          /\ UNCHANGED supErr
       \/ /\ supPc' = "returned"
          /\ supErr' = "failed to resolve server address"
          /\ UNCHANGED serverIP
    /\ UNCHANGED <<extDone, sessDone, sessCause, tcpPc, tcpErr, pxPc, pxRetry,
                   pxErr, graceful>>
    /\ UNCHANGED <<ready, signalled, port, sessNo>>
    /\ UNCHANGED <<tunVars, wrVars, rdVars>>
    /\ UNCHANGED supRest

\* close(c.ready) follows a connect() that succeeded.  The variant that
\* leaves the signal to the handshake comes first.
SignalsAfterHandshake(connected) == FALSE
SignalsReady(connected) == connected

\* connect(ctx), the admission request: on success c.port is set, the
\* reset of c.ready is deferred and c.ready is closed; the request fails
\* with an error that wraps context.Canceled when the context is cancelled.
SupConnect(p) ==
    /\ supPc = "connect"
    /\ \E connected \in BOOLEAN :
        /\ connected => ~extDone
        /\ signalled' = IF SignalsReady(connected)
                        THEN Append(signalled, ProxyAddr(serverIP, p))
                        ELSE signalled
        /\ IF connected
           THEN /\ supPc' = "spawn"
                /\ port' = p
                /\ UNCHANGED supErr
           ELSE /\ supPc' = "returned"
                /\ supErr' = IF extDone THEN "canceled" ELSE "failed to connect"
                /\ UNCHANGED port
    /\ UNCHANGED <<extDone, sessDone, sessCause, tcpPc, tcpErr, pxPc, pxRetry,
                   pxErr, graceful>>
    /\ UNCHANGED <<ready, serverIP, sessNo>>
    /\ UNCHANGED <<tunVars, wrVars, rdVars>>
    /\ UNCHANGED supRest

\* ctx, cancel := context.WithCancelCause(ctx), then the two run(...).
SupSpawn ==
    /\ supPc = "spawn"
    /\ supPc' = "wait"
    /\ sessDone' = extDone
    /\ sessCause' = IF extDone THEN "canceled" ELSE ""
    /\ tcpPc' = "listen"
    /\ pxPc' = "dial"
    /\ UNCHANGED <<extDone, supErr, tcpErr, pxRetry, pxErr, graceful>>
    /\ UNCHANGED <<tunVars, wrVars, rdVars>>
    /\ UNCHANGED supOthers

\* <-ctx.Done(); return context.Cause(ctx): the value returned is settled
\* here, the deferred cancel(nil) and wg.Wait() follow.
SupCtxDone ==
    /\ supPc = "wait"
    /\ sessDone
    /\ supPc' = "join"
    /\ supErr' = sessCause
    /\ UNCHANGED <<extDone, sessDone, sessCause, tcpPc, tcpErr, pxPc, pxRetry,
                   pxErr, graceful>>
    /\ UNCHANGED <<tunVars, wrVars, rdVars>>
    /\ UNCHANGED supOthers

\* wg.Wait() of RunWithoutRetries: both children are done.  The deferred
\* c.ready = make(chan struct{}) runs last.
SupJoin ==
    /\ supPc = "join"
    /\ tcpPc = "done"
    /\ pxPc = "done"
    /\ supPc' = "returned"
    /\ ready' = ready + 1
    /\ UNCHANGED <<extDone, sessDone, sessCause, supErr, tcpPc, tcpErr, pxPc,
                   pxRetry, pxErr, graceful>>
    /\ UNCHANGED <<signalled, serverIP, port, sessNo>>
    /\ UNCHANGED <<tunVars, wrVars, rdVars>>
    /\ UNCHANGED supRest

\* runMasterTCPProxy returns err, and the goroutine of run() cancels the
\* context of the session.
TcpReturn(err) ==
    /\ tcpPc' = "done"
    /\ tcpErr' = err
    /\ CancelSession(StoppedWith("master proxy", err))

\* lc.Listen(ctx, "tcp4", proxyMasterAddr): the error of a listen given up
\* for the cancelled context wraps context.Canceled.
TcpListen ==
    /\ tcpPc = "listen"
    /\ \/ tcpPc' = "accept" /\ UNCHANGED <<tcpErr, sessDone, sessCause>>
       \/ sessDone /\ TcpReturn("canceled")
       \/ TcpReturn("master TCP proxy: failed to listen")
    /\ UNCHANGED <<extDone, supPc, supErr, pxPc, pxRetry, pxErr, graceful>>
    /\ UNCHANGED <<tunVars, wrVars, rdVars>>
    /\ UNCHANGED supOthers

\* conn.Accept() fails: on the listener closed once the context is done
\* (the proxy returns nil), or otherwise.
TcpAcceptFails ==
    /\ tcpPc = "accept"
    /\ \/ sessDone /\ TcpReturn("nil")
       \/ TcpReturn("master TCP proxy: failed to accept")
    /\ UNCHANGED <<extDone, supPc, supErr, pxPc, pxRetry, pxErr, graceful>>
    /\ UNCHANGED <<tunVars, wrVars, rdVars>>
    /\ UNCHANGED supOthers

\* runProxyClient returns err before it has started the reader and the
\* writer, and the goroutine of run() cancels the context of the session.
PxReturn(err) ==
    /\ pxPc' = "done"
    /\ pxErr' = err
    /\ CancelSession(StoppedWith("proxy main loop", err))

\* d.DialContext(ctx, "udp4", addr): the error of a dial given up for the
\* cancelled context wraps context.Canceled.
PxDial ==
    /\ pxPc = "dial"
    /\ \/ pxPc' = "token" /\ UNCHANGED <<pxErr, sessDone, sessCause>>
       \/ sessDone /\ PxReturn("canceled")
       \/ PxReturn("failed to dial")
    /\ UNCHANGED <<extDone, supPc, supErr, tcpPc, tcpErr, pxRetry, graceful>>
    /\ UNCHANGED <<tunVars, wrVars, rdVars>>
    /\ UNCHANGED supOthers

\* sendToken(conn, c.token), then childCtx and run() of the reader and of
\* the writer.
PxToken ==
    /\ pxPc = "token"
    /\ \/ /\ pxPc' = "running"
          /\ childDone' = FALSE
          /\ childCause' = ""
          /\ rdPc' = "start"
          /\ wrPc' = "select"
          /\ UNCHANGED <<pxErr, sessDone, sessCause>>
       \/ /\ PxReturn("failed to send token")
          /\ UNCHANGED <<childDone, childCause, rdPc, wrPc>>
    /\ UNCHANGED <<extDone, supPc, supErr, tcpPc, tcpErr, pxRetry, graceful>>
    /\ UNCHANGED <<dataToServerCh, relayD>>
    /\ UNCHANGED <<rdErr, rdElapsed, rdCancelled, rdProbes>>
    /\ UNCHANGED <<wrErr, asyncTimerChan, wrTimer, wrTick, wrWrote, wrLast,
                   wrPrev, wrSinceWrite, wrSinceItem, wrGap, wrGapItem>>
    /\ UNCHANGED supOthers

\* runProxyClient returns err after it has started the reader and the
\* writer: the deferred cancel(nil) on childCtx runs, then wg.Wait().
PxFinish(err) ==
    /\ pxPc' = "join"
    /\ pxErr' = err
    /\ CancelChildCtx("nil")

\* select { case <-ctx.Done(): case <-childCtx.Done(): return context.Cause(childCtx) }
PxSelect ==
    /\ pxPc = "running"
    /\ \/ /\ sessDone
          /\ pxPc' = "drain_send"
          /\ pxRetry' = 0
          /\ UNCHANGED <<pxErr, childDone, childCause>>
       \/ /\ childDone
          /\ PxFinish(childCause)
          /\ UNCHANGED pxRetry
    /\ UNCHANGED <<extDone, sessDone, sessCause, supPc, supErr, tcpPc, tcpErr, graceful>>
    /\ UNCHANGED <<dataToServerCh, relayD>>
    /\ UNCHANGED <<wrVars, rdVars>>
    /\ UNCHANGED supOthers

\* c.dataToServerCh <- 'd', a send that waits for room in the queue; after
\* the last retry the loop is over: "failed to disconnect".
PxDrainSend ==
    /\ pxPc = "drain_send"
    /\ IF pxRetry < DrainRetries
       THEN /\ Len(dataToServerCh) < OutboundCap
            /\ dataToServerCh' = Append(dataToServerCh, ProxyClientRequestTypeDisconnect)
            /\ pxPc' = "drain_wait"
            /\ UNCHANGED <<pxErr, childDone, childCause>>
       ELSE /\ PxFinish("failed to disconnect")
            /\ UNCHANGED dataToServerCh
    /\ UNCHANGED <<extDone, sessDone, sessCause, supPc, supErr, tcpPc, tcpErr,
                   pxRetry, graceful>>
    /\ UNCHANGED relayD
    /\ UNCHANGED <<wrVars, rdVars>>
    /\ UNCHANGED supOthers

\* select { case <-childCtx.Done(): return nil; case <-time.After(100ms): }
\* The goroutine waits in the select from the start of the 100 ms: it is
\* woken by the timer only if childCtx is not done by then.
\* The variant in which the timer wins regardless comes first.
DrainTimerFiresAnyway(done) == TRUE
DrainTimerFires(done) == ~done

PxDrainWait ==
    /\ pxPc = "drain_wait"
    /\ \/ /\ childDone
          /\ PxFinish("nil")
          /\ UNCHANGED pxRetry
       \/ /\ DrainTimerFires(childDone)
          /\ pxRetry' = pxRetry + 1
          /\ pxPc' = "drain_send"
          /\ UNCHANGED <<pxErr, childDone, childCause>>
    /\ UNCHANGED <<extDone, sessDone, sessCause, supPc, supErr, tcpPc, tcpErr, graceful>>
    /\ UNCHANGED <<dataToServerCh, relayD>>
    /\ UNCHANGED <<wrVars, rdVars>>
    /\ UNCHANGED supOthers

\* wg.Wait() of runProxyClient: the reader and the writer are done; then
\* the goroutine of run() cancels the context of the session.
PxJoin ==
    /\ pxPc = "join"
    /\ rdPc = "done"
    /\ wrPc = "done"
    /\ PxReturn(pxErr)
    /\ UNCHANGED <<extDone, supPc, supErr, tcpPc, tcpErr, pxRetry, graceful>>
    /\ UNCHANGED <<tunVars, wrVars, rdVars>>
    /\ UNCHANGED supOthers

(***************************************************************************)
(* GetProxyAddr and the sessions it runs beside                            *)
(***************************************************************************)
\* Largest number of sessions Run's loop starts after the first.
MaxSessions == 2

\* GetProxyAddr is called: the select evaluates c.ready and waits on that
\* channel and on the timer.
GetProxyAddrCall ==
    /\ gpaPc \in {"idle", "returned"}
    /\ gpaPc' = "select"
    /\ gpaCh' = ready
    /\ gpaIP' = 0
    /\ gpaRet' = ""
    /\ UNCHANGED sigVars
    /\ UNCHANGED gpaOthers

\* case <-c.ready: the channel is closed.
GetProxyAddrReady ==
    /\ gpaPc = "select"
    /\ Closed(gpaCh)
    /\ gpaPc' = "ip"
    /\ UNCHANGED <<gpaCh, gpaIP, gpaRet>>
    /\ UNCHANGED sigVars
    /\ UNCHANGED gpaOthers

\* case <-time.After(timeout): return ""
GetProxyAddrTimeout ==
    /\ gpaPc = "select"
    /\ gpaPc' = "returned"
    /\ gpaRet' = ""
    /\ UNCHANGED <<gpaCh, gpaIP>>
    /\ UNCHANGED sigVars
    /\ UNCHANGED gpaOthers

\* The arguments of Sprintf are read one after the other, with no lock and
\* no other synchronisation than the receive from the channel: first
\* c.serverIP.IP,
GetProxyAddrReadIP ==
    /\ gpaPc = "ip"
    /\ gpaPc' = "port"
    /\ gpaIP' = serverIP
    /\ UNCHANGED <<gpaCh, gpaRet>>
    /\ UNCHANGED sigVars
    /\ UNCHANGED gpaOthers

\* then c.port; the formatted address is returned.
GetProxyAddrReadPort ==
    /\ gpaPc = "port"
    /\ gpaPc' = "returned"
    /\ gpaRet' = ProxyAddr(gpaIP, port)
    /\ UNCHANGED <<gpaCh, gpaIP>>
    /\ UNCHANGED sigVars
    /\ UNCHANGED gpaOthers

\* Everything RunWithoutRetries does between close(c.ready) and its return,
\* in one step: the children run and stop, the session returns the cause of
\* its context and the deferred reset gives c.ready a new channel.
SupSession ==
    /\ supPc = "spawn"
    /\ supPc' = "returned"
    /\ \E err \in SessionErrors : supErr' = err
    /\ ready' = ready + 1
    /\ UNCHANGED <<extDone, sessDone, sessCause, tcpPc, tcpErr, pxPc, pxRetry,
                   pxErr, graceful>>
    /\ UNCHANGED <<signalled, serverIP, port, sessNo>>
    /\ UNCHANGED <<tunVars, wrVars, rdVars>>
    /\ UNCHANGED supRest

\* Run's loop calls RunWithoutRetries again after a session that failed.
RunRetry ==
    /\ supPc = "returned"
    /\ supErr # "canceled"
    /\ sessNo < MaxSessions
    /\ sessNo' = sessNo + 1
    /\ supPc' = "resolve"
    /\ supErr' = ""
    /\ UNCHANGED <<extDone, sessDone, sessCause, tcpPc, tcpErr, pxPc, pxRetry,
                   pxErr, graceful>>
    /\ UNCHANGED <<ready, signalled, serverIP, port>>
    /\ UNCHANGED <<tunVars, wrVars, rdVars>>
    /\ UNCHANGED supRest

(***************************************************************************)
(* The codec: EncodeAddr, EncodeAddrData, DecodeAddrData                   *)
(***************************************************************************)
\* Longest payload drawn from CodecBytes.
MaxPayload == 2

\* A byte slice is a sequence of numbers in 0..255.
CodecBytes == {0, 1, 255}

\* The first 12 bytes of an IPv4 address in its 16-byte form.
V4InV6Prefix == <<0, 0, 0, 0, 0, 0, 0, 0, 0, 0, 255, 255>>

\* net.IPv4(a, b, c, d): the 16-byte form
IPv4(a, b, c, d) == V4InV6Prefix \o <<a, b, c, d>>

\* net.IPv6loopback
IPv6loopback == <<0, 0, 0, 0, 0, 0, 0, 0, 0, 0, 0, 0, 0, 0, 0, 1>>

\* ip.To4(): the 4-byte form of an IPv4 address, nil (here <<>>) otherwise
To4(ip) ==
    IF Len(ip) = 4 THEN ip
    ELSE IF Len(ip) = 16 /\ SubSeq(ip, 1, 12) = V4InV6Prefix THEN SubSeq(ip, 13, 16)
    ELSE <<>>

\* binary.LittleEndian.AppendUint16(buf, v).  The big-endian variant comes
\* first.
AppendUint16BE(buf, v) == buf \o <<v \div 256, v % 256>>
AppendUint16(buf, v) == buf \o <<v % 256, v \div 256>>

\* binary.LittleEndian.Uint16(b).  The big-endian variant comes first.
Uint16BE(b) == b[1] * 256 + b[2]
Uint16(b) == b[1] + b[2] * 256

\* A call that panicked, and one that returned.
Panicked == [panic |-> TRUE]
Returned(v) == [panic |-> FALSE, out |-> v]

\* func EncodeAddr(buf []byte, addr *net.UDPAddr) []byte; uint16(addr.Port)
\* keeps the low 16 bits.
EncodeAddr(buf, addr) ==
    LET ipv4 == To4(addr.IP) IN
    IF ipv4 = <<>>
    THEN Panicked
    ELSE Returned(AppendUint16(buf \o ipv4, addr.Port % 65536))

\* func EncodeAddrData(buf []byte, addr *net.UDPAddr, data []byte) []byte
EncodeAddrData(buf, addr, data) ==
    LET r == EncodeAddr(buf, addr) IN
    IF r.panic THEN Panicked ELSE Returned(r.out \o data)

\* func DecodeAddrData(data []byte) (*net.UDPAddr, []byte)
DecodeAddrData(data) ==
    IF Len(data) < AddrSize
    THEN Panicked
    ELSE Returned([addr |-> [IP |-> IPv4(data[1], data[2], data[3], data[4]),
                             Port |-> Uint16(SubSeq(data, 5, 6))],
                   data |-> SubSeq(data, 7, Len(data))])

\* The arguments tried: addresses in the 4-byte and in the 16-byte form and
\* one that is not IPv4, ports at the ends and around the byte boundary,
\* payloads up to MaxPayload bytes and the one of the repository's test.
CodecIPs ==
    {<<127, 0, 0, 1>>, <<0, 0, 0, 0>>, <<255, 255, 255, 255>>, <<10, 1, 2, 3>>,
     IPv4(127, 0, 0, 1), IPv6loopback}
CodecPorts == {0, 1, 255, 256, 12345, 65535}
CodecPayloads ==
    UNION {[1..n -> CodecBytes] : n \in 0..MaxPayload} \cup {<<1, 2, 3, 4, 5, 6, 7, 8>>}
CodecBufs == {<<>>, <<7>>}

NoResult == [panic |-> FALSE, out |-> <<>>]
NoInput == [buf |-> <<>>, addr |-> [IP |-> <<>>, Port |-> 0], data |-> <<>>]

CodecIdle ==
    /\ cdPc = "idle"
    /\ cdIn = NoInput
    /\ cdFrame = NoResult
    /\ cdOut = NoResult

CodecInit ==
    /\ cdPc = "in"
    /\ cdIn \in [buf : CodecBufs, addr : [IP : CodecIPs, Port : CodecPorts],
                 data : CodecPayloads]
    /\ cdFrame = NoResult
    /\ cdOut = NoResult

\* EncodeAddrData is called with the arguments.
CodecEncode ==
    /\ cdPc = "in"
    /\ cdPc' = "encoded"
    /\ cdFrame' = EncodeAddrData(cdIn.buf, cdIn.addr, cdIn.data)
    /\ UNCHANGED <<cdIn, cdOut>>
    /\ UNCHANGED cdOthers

\* DecodeAddrData is called with the frame EncodeAddrData returned.
CodecDecode ==
    /\ cdPc = "encoded"
    /\ ~cdFrame.panic
    /\ cdPc' = "decoded"
    /\ cdOut' = DecodeAddrData(cdFrame.out)
    /\ UNCHANGED <<cdIn, cdFrame>>
    /\ UNCHANGED cdOthers

\* Longest datagram handed to DecodeAddrData as it came from the socket.
MaxRaw == 8

\* Datagrams of every length up to MaxRaw, of the bytes 'K', 'D' and 1.
RawBytes == {75, 68, 1}
RawDatagrams == UNION {[1..n -> RawBytes] : n \in 0..MaxRaw}

RawInit ==
    /\ cdPc = "raw"
    /\ cdIn \in [buf : {<<>>}, addr : {NoInput.addr}, data : RawDatagrams]
    /\ cdFrame = NoResult
    /\ cdOut = NoResult

\* DecodeAddrData is called with a datagram.
CodecDecodeRaw ==
    /\ cdPc = "raw"
    /\ cdPc' = "decoded"
    /\ cdOut' = DecodeAddrData(cdIn.data)
    /\ UNCHANGED <<cdIn, cdFrame>>
    /\ UNCHANGED cdOthers

(***************************************************************************)
(* The user key                                                            *)
(***************************************************************************)
\* A string is a sequence of characters.  The alphabet of
\* base32.StdEncoding: a character stands for its place in it, less one.
StdAlphabet ==
    <<"A", "B", "C", "D", "E", "F", "G", "H", "I", "J", "K", "L", "M", "N", "O", "P",
      "Q", "R", "S", "T", "U", "V", "W", "X", "Y", "Z", "2", "3", "4", "5", "6", "7">>
StdPadding == "="

\* The lower-case letters, in the order of the letters of StdAlphabet.
LowerLetters ==
    <<"a", "b", "c", "d", "e", "f", "g", "h", "i", "j", "k", "l", "m", "n", "o", "p",
      "q", "r", "s", "t", "u", "v", "w", "x", "y", "z">>

IndexOf(seq, c) == CHOOSE i \in 1..Len(seq) : seq[i] = c
InSeq(seq, c) == \E i \in 1..Len(seq) : seq[i] = c

\* type UserKey [10]byte
UserKeyLen == 10
ZeroKey == [i \in 1..UserKeyLen |-> 0]

\* The 8 characters of a quantum of 5 bytes, as base32's Encode packs
\* them.  The variant that takes the last group from the fourth byte comes
\* first.
EncodeQuantumSkewed(b) ==
    <<b[1] \div 8,
      (b[1] % 8) * 4 + b[2] \div 64,
      (b[2] \div 2) % 32,
      (b[2] % 2) * 16 + b[3] \div 16,
      (b[3] % 16) * 2 + b[4] \div 128,
      (b[4] \div 4) % 32,
      (b[4] % 4) * 8 + b[5] \div 32,
      b[4] % 32>>
EncodeQuantum(b) ==
    <<b[1] \div 8,
      (b[1] % 8) * 4 + b[2] \div 64,
      (b[2] \div 2) % 32,
      (b[2] % 2) * 16 + b[3] \div 16,
      (b[3] % 16) * 2 + b[4] \div 128,
      (b[4] \div 4) % 32,
      (b[4] % 4) * 8 + b[5] \div 32,
      b[5] % 32>>

\* base32.StdEncoding.EncodeToString of a slice of whole quanta.
RECURSIVE EncodeToString(_)
EncodeToString(src) ==
    IF src = <<>>
    THEN <<>>
    ELSE LET q == EncodeQuantum(SubSeq(src, 1, 5)) IN
         [i \in 1..8 |-> StdAlphabet[q[i] + 1]] \o EncodeToString(SubSeq(src, 6, Len(src)))

\* The bytes of a quantum of which dlen characters were read: 8 of them
\* give 5 bytes, 7 give 4, 5 give 3, 4 give 2 and 2 give 1; a shift of a
\* byte keeps its low 8 bits.
DecodeQuantum(dbuf, dlen) ==
    LET d == [i \in 1..8 |-> IF i <= Len(dbuf) THEN dbuf[i] ELSE 0]
        dst == <<(d[1] * 8 + d[2] \div 4) % 256,
                 (d[2] * 64 + d[3] * 2 + d[4] \div 16) % 256,
                 (d[4] * 16 + d[5] \div 2) % 256,
                 (d[5] * 128 + d[6] * 4 + d[7] \div 8) % 256,
                 (d[7] * 32 + d[8]) % 256>>
        n == CASE dlen = 8 -> 5 [] dlen = 7 -> 4 [] dlen = 5 -> 3
               [] dlen = 4 -> 2 [] OTHER -> 1
    IN SubSeq(dst, 1, n)

\* What a decoding gives: the bytes, or base32.CorruptInputError.
Decoded(data) == [err |-> "nil", data |-> data]
CorruptInput == [err |-> "illegal base32 data", data |-> <<>>]

\* The decoding loop of base32 with padding: src is what is left of the
\* input, dbuf the values read of the quantum at hand, dst the bytes
\* decoded so far.
RECURSIVE decode(_, _, _)
decode(src, dbuf, dst) ==
    IF src = <<>>
    THEN IF dbuf = <<>> THEN Decoded(dst) ELSE CorruptInput
    ELSE LET in == Head(src)
             rest == Tail(src)
             j == Len(dbuf)
         IN IF in = StdPadding /\ j >= 2 /\ Len(rest) < 8
            THEN IF Len(rest) + j < 8 - 1
                 THEN CorruptInput
                 ELSE IF \E k \in 0..(8 - 1 - j - 1) : rest[k + 1] # StdPadding
                 THEN CorruptInput
                 ELSE IF j \in {1, 3, 6}
                 THEN CorruptInput
                 ELSE Decoded(dst \o DecodeQuantum(dbuf, j))
            ELSE IF ~InSeq(StdAlphabet, in)
            THEN CorruptInput
            ELSE LET d == Append(dbuf, IndexOf(StdAlphabet, in) - 1) IN
                 IF Len(d) = 8
                 THEN decode(rest, <<>>, dst \o DecodeQuantum(d, 8))
                 ELSE decode(rest, d, dst)

\* base32.StdEncoding.DecodeString: the line breaks are taken out first.
stripNewlines(s) == SelectSeq(s, LAMBDA c : c \notin {"\r", "\n"})
DecodeString(s) == decode(stripNewlines(s), <<>>, <<>>)

\* var ErrInvalidKey = errors.New("invalid key")
ErrInvalidKey == "invalid key"

\* func (k UserKey) IsZero() bool
IsZero(k) == k = ZeroKey

\* func (k UserKey) String() string
UserKeyString(k) == EncodeToString(k)

\* copy(key[:], data[:])
Copy(key, data) == [i \in 1..UserKeyLen |-> IF i <= Len(data) THEN data[i] ELSE key[i]]

\* len(data) != len(key) is an error.  The variant that lets a shorter
\* slice through comes first.
FitsKey(data) == Len(data) <= UserKeyLen
IsKeyLen(data) == Len(data) = UserKeyLen

\* func UserKeyFromString(keyStr string) (UserKey, error)
UserKeyFromString(keyStr) ==
    LET r == DecodeString(keyStr) IN
    IF r.err # "nil" \/ ~IsKeyLen(r.data)
    THEN [key |-> ZeroKey, err |-> ErrInvalidKey]
    ELSE [key |-> Copy(ZeroKey, r.data), err |-> "nil"]

\* func (k UserKey) MarshalJSON() ([]byte, error): the error is always nil.
Quote == "\""
MarshalJSON(k) ==
    IF IsZero(k)
    THEN <<Quote, Quote>>
    ELSE <<Quote>> \o UserKeyString(k) \o <<Quote>>

\* func (k *UserKey) UnmarshalJSON(data []byte) error: *k when it returns,
\* and the error.
UnmarshalJSON(k, data) ==
    IF data = <<"n", "u", "l", "l">> \/ data = <<Quote, Quote>>
    THEN [key |-> ZeroKey, err |-> "nil"]
    ELSE IF Len(data) < 3 \/ data[1] # Quote \/ data[Len(data)] # Quote
    THEN [key |-> k, err |-> ErrInvalidKey]
    ELSE LET r == UserKeyFromString(SubSeq(data, 2, Len(data) - 1)) IN
         IF r.err # "nil" THEN [key |-> k, err |-> r.err] ELSE r

\* strings.TrimSpace: the white space at both ends is cut off.
WhiteSpace == {" ", "\t", "\n", "\r", "\f"}
RECURSIVE TrimLeft(_)
TrimLeft(s) == IF s # <<>> /\ Head(s) \in WhiteSpace THEN TrimLeft(Tail(s)) ELSE s
RECURSIVE TrimRight(_)
TrimRight(s) ==
    IF s # <<>> /\ s[Len(s)] \in WhiteSpace
    THEN TrimRight(SubSeq(s, 1, Len(s) - 1))
    ELSE s
TrimSpace(s) == TrimRight(TrimLeft(s))

\* strings.ToUpper and strings.ToLower
ToUpper(s) ==
    [i \in 1..Len(s) |->
        IF InSeq(LowerLetters, s[i]) THEN StdAlphabet[IndexOf(LowerLetters, s[i])] ELSE s[i]]
ToLower(s) ==
    [i \in 1..Len(s) |->
        IF InSeq(SubSeq(StdAlphabet, 1, 26), s[i])
        THEN LowerLetters[IndexOf(StdAlphabet, s[i])]
        ELSE s[i]]

\* func normalizeKey(key string) string.  The variant that only trims
\* comes first.
normalizeKeyTrimOnly(key) == TrimSpace(key)
normalizeKey(key) == ToUpper(TrimSpace(key))

\* The keys tried: the zero key, the key of the repository's tests, and
\* keys with high bits in every place.
UserKeys ==
    {ZeroKey,
     <<0, 1, 2, 3, 4, 5, 6, 7, 8, 9>>,
     [i \in 1..UserKeyLen |-> 255],
     <<255, 0, 170, 85, 1, 128, 64, 31, 248, 7>>,
     <<0, 0, 0, 0, 0, 0, 0, 0, 0, 1>>}

\* What is typed around a key: white space before and after it.
Margins == {<<>>, <<" ">>, <<"\t">>, <<"\n">>, <<"\r", "\n">>, <<" ", " ">>}

\* Strings that are not the rendering of a key: "foo", 15 characters, one
\* byte with its padding, 15 bytes, the empty string, a digit that is not
\* in the alphabet, padding alone, a line break inside 16 characters,
\* padding after 16 and after 15 characters, and 16 characters of which the
\* last is in lower case after a blank.
A15 == [i \in 1..15 |-> "A"]
OtherStrings ==
    {<<"f", "o", "o">>,
     <<"A", "A", "A", "Q", "E", "A", "Y", "E", "A", "U", "D", "A", "O", "C", "A">>,
     <<"A", "A", "=", "=", "=", "=", "=", "=">>,
     [i \in 1..24 |-> "A"],
     <<>>,
     A15 \o <<"1">>,
     [i \in 1..8 |-> "="],
     [i \in 1..8 |-> "A"] \o <<"\n">> \o [i \in 1..8 |-> "A"],
     A15 \o <<"A", "=">>,
     A15 \o <<"=">>,
     <<" ">> \o A15 \o <<"a">>}

NoParse == [key |-> ZeroKey, err |-> ""]

KeyIdle ==
    /\ ukPc = "idle"
    /\ ukKey = ZeroKey
    /\ ukStr = <<>>
    /\ ukFrom = ""
    /\ ukOut = NoParse

\* There is a key, or no key and a string somebody typed.
NoKey == <<>>
KeyInit ==
    /\ \/ ukPc = "key" /\ ukKey \in UserKeys /\ ukStr = <<>>
       \/ ukPc = "typed" /\ ukKey = NoKey /\ ukStr \in OtherStrings
    /\ ukFrom = ""
    /\ ukOut = NoParse

\* k.String()
KeyString ==
    /\ ukPc = "key"
    /\ ukPc' = "str"
    /\ ukStr' = UserKeyString(ukKey)
    /\ UNCHANGED <<ukKey, ukFrom, ukOut>>
    /\ UNCHANGED ukOthers

\* The rendering of the key is typed by hand, in lower case or not and
\* with white space around it.
KeyTyped(pre, lower, post) ==
    /\ ukPc = "str"
    /\ ukPc' = "typed"
    /\ ukStr' = pre \o (IF lower THEN ToLower(ukStr) ELSE ukStr) \o post
    /\ UNCHANGED <<ukKey, ukFrom, ukOut>>
    /\ UNCHANGED ukOthers

\* key = normalizeKey(key), as checkKey, loadConfig and saveConfig do
KeyNormalize ==
    /\ ukPc = "typed"
    /\ ukPc' = "norm"
    /\ ukStr' = normalizeKey(ukStr)
    /\ UNCHANGED <<ukKey, ukFrom, ukOut>>
    /\ UNCHANGED ukOthers

\* protocol.UserKeyFromString(key)
KeyFromString ==
    /\ ukPc \in {"str", "typed", "norm"}
    /\ ukPc' = "parsed"
    /\ ukFrom' = ukPc
    /\ ukOut' = UserKeyFromString(ukStr)
    /\ UNCHANGED <<ukKey, ukStr>>
    /\ UNCHANGED ukOthers

\* k.MarshalJSON()
KeyMarshal ==
    /\ ukPc = "key"
    /\ ukPc' = "json"
    /\ ukStr' = MarshalJSON(ukKey)
    /\ UNCHANGED <<ukKey, ukFrom, ukOut>>
    /\ UNCHANGED ukOthers

\* key.UnmarshalJSON(data) on a key that is zero
KeyUnmarshal ==
    /\ ukPc = "json"
    /\ ukPc' = "parsed"
    /\ ukFrom' = "json"
    /\ ukOut' = UnmarshalJSON(ZeroKey, ukStr)
    /\ UNCHANGED <<ukKey, ukStr>>
    /\ UNCHANGED ukOthers

(***************************************************************************)
(* The payloads: the reader, the workers, runMasterUDPProxy and the writer *)
(* with the bytes they carry                                               *)
(***************************************************************************)
\* Datagrams the legs read from the game in a run of the model.
MaxGameDatagrams == 3

\* gameAddr := &net.UDPAddr{IP: net.IPv4(127, 0, 0, 1), Port: 8888}
gameAddr == [IP |-> IPv4(127, 0, 0, 1), Port |-> 8888]

\* c.masterAddr, resolved as "udp4".
masterAddr == [IP |-> <<0, 0, 0, 0>>, Port |-> 0]

\* The number of the four bytes of an IPv4 address, the first byte first.
IPNumber(ip) == ((ip[1] * 256 + ip[2]) * 256 + ip[3]) * 256 + ip[4]

\* addrPortV4{ipv4(ip), uint16(addr.Port)}: the key of the registry.  The
\* variant that leaves the port out of the key comes first.
AddrPortV4IPOnly(addr) == [ip |-> IPNumber(To4(addr.IP)), port |-> 0]
AddrPortV4(addr) == [ip |-> IPNumber(To4(addr.IP)), port |-> addr.Port % 65536]

\* The *net.UDPAddr a worker was made for: what DecodeAddrData returned
\* for the frame that made it.
RemoteAddr(addr4) ==
    LET ip == ToIP(addr4.ip) IN
    [IP |-> IPv4(ip[1], ip[2], ip[3], ip[4]), Port |-> addr4.port]

\* net.IP.Equal: the 4-byte and the 16-byte form of an address are equal.
IPEqual(a, b) == To4(a) = To4(b) /\ (To4(a) # <<>> \/ a = b)

\* if !addr.IP.Equal(addr.IP) || addr.Port != gameAddr.Port: the IP of the
\* sender is compared with itself.  The variant that compares it with the
\* IP of the game comes first.
UnexpectedAddrOrIP(addr) ==
    ~IPEqual(addr.IP, gameAddr.IP) \/ addr.Port # gameAddr.Port
UnexpectedAddr(addr) ==
    ~IPEqual(addr.IP, addr.IP) \/ addr.Port # gameAddr.Port

\* if n == 0 { continue }: empty datagrams of the game are skipped.  The
\* variant without the line comes first.
EmptySkippedNever(n) == FALSE
EmptySkipped(n) == n = 0

\* The peers whose frames the relay forwards, and the senders of the
\* datagrams the local sockets receive: the game, another program on the
\* port of the game at another address, and the game's host at another
\* port.
PayloadPeers == {[ip |-> 1, port |-> 1], [ip |-> 1, port |-> 2]}
GameSenders ==
    {gameAddr, [IP |-> IPv4(10, 0, 0, 9), Port |-> 8888],
     [IP |-> IPv4(127, 0, 0, 1), Port |-> 8889]}

\* What the tunnel delivers: address-data frames of the peers with a
\* payload of one byte, an empty datagram, a keep-alive answer and an
\* address with no payload behind it.
FrameOf(addr4, data) == EncodeAddrData(<<>>, RemoteAddr(addr4), data).out

\* The six bytes an address is sent as.
HeaderFor(addr4) == EncodeAddr(<<>>, RemoteAddr(addr4)).out
PeerFrames == {FrameOf(p, <<7>>) : p \in PayloadPeers}
ControlDatagrams == {<<>>, <<75>>, <<0, 0, 0, 1, 1, 0>>}

\* A codec call: the function, its arguments and what it did.
NoUDPAddr == [IP |-> <<>>, Port |-> 0]
EncodeCall(addr, data) ==
    [fn |-> "EncodeAddrData", addr |-> addr, data |-> data,
     panic |-> EncodeAddrData(<<>>, addr, data).panic]
DecodeCall(data) ==
    [fn |-> "DecodeAddrData", addr |-> NoUDPAddr, data |-> data,
     panic |-> DecodeAddrData(data).panic]

\* ProxyServerResponseTypeDisconnect as the byte it is: 'D'.
DisconnectByte == 68

NoCodecCall == [fn |-> "", addr |-> NoUDPAddr, data |-> <<>>, panic |-> FALSE]
NoWrite == [by |-> <<>>, from |-> -1, hdr |-> <<>>, data |-> <<>>]
NoChannels == [ch \in 0..MaxChans |-> <<>>]
NoReads == [a \in PayloadPeers \cup {MasterAddr} |-> <<>>]

PayloadIdle ==
    /\ inbound = NoChannels
    /\ toGame = NoWrite
    /\ fromGame = NoReads
    /\ relayOut = <<>>
    /\ plCall = NoCodecCall

\* A buffered channel hands out what it holds oldest first.  The variant
\* that hands out the newest comes first.
QueuePutFront(q, x) == <<x>> \o q
QueuePut(q, x) == Append(q, x)
QueueTake(q) == Head(q)

\* conn.Read of the reader returned buf: an empty datagram is dropped, an
\* address-data frame is decoded and its payload offered to the channel
\* getWorkerChan returns, anything shorter is taken for a control byte
\* (keep-alive and unknown bytes are logged).  A frame whose address is
\* not IPv4 gets the nil channel, on which the select takes its default.
PayloadDispatch(buf) ==
    /\ rdPc = "read"
    /\ IF Len(buf) > AddrSize
       THEN LET r == DecodeAddrData(buf) IN
            /\ plCall' = DecodeCall(buf)
            /\ IF r.panic
               THEN /\ rdPc' = "panic"
                    /\ UNCHANGED <<regVars, inbound>>
               ELSE IF To4(r.out.addr.IP) = <<>>
               THEN UNCHANGED <<rdPc, regVars, inbound>>
               ELSE LET addr4 == AddrPortV4(r.out.addr)
                        ch == IF HasWorkerChan(addr4)
                              THEN remoteAddrToDataCh[addr4]
                              ELSE nextCh + 1
                    IN
                    /\ getWorkerChan(addr4)
                    /\ inbound' =
                         IF chans'[ch] > Len(inbound[ch])
                         THEN [inbound EXCEPT ![ch] =
                                 Append(@, [hdr |-> SubSeq(buf, 1, AddrSize),
                                            data |-> r.out.data])]
                         ELSE inbound
                    /\ UNCHANGED <<rdPc, masterUDP>>
            /\ UNCHANGED rdErr
       ELSE /\ IF Len(buf) > 0 /\ buf[1] = DisconnectByte
               THEN ReaderReturn("nil")
               ELSE UNCHANGED <<rdPc, rdErr>>
            /\ UNCHANGED <<regVars, inbound, plCall>>
    /\ rdElapsed' = 0
    /\ rdProbes' = 0
    /\ UNCHANGED rdCancelled
    /\ UNCHANGED <<tunVars, wrVars, toGame, fromGame, relayOut>>
    /\ UNCHANGED plOthers

\* The write leg of the worker of channel w with the payloads: the oldest
\* payload of dataCh is written to the game from the socket of the
\* worker.  A write on the closed socket ends the leg.
PayloadWriteLeg(w) ==
    /\ workers[w].st = "run"
    /\ workers[w].wleg = "run"
    /\ \/ /\ WorkerCtxDone
          /\ WorkerStep(w, [workers[w] EXCEPT !.wleg = "done", !.closed = TRUE])
          /\ UNCHANGED <<chans, inbound, toGame>>
       \/ /\ chans[w] > 0
          /\ chans' = [chans EXCEPT ![w] = @ - 1]
          /\ inbound' = [inbound EXCEPT ![w] = Tail(@)]
          /\ IF workers[w].closed
             THEN /\ WorkerStep(w, [workers[w] EXCEPT !.wleg = "done"])
                  /\ UNCHANGED toGame
             ELSE /\ WorkerStep(w, workers[w])
                  /\ toGame' =
                       [by |-> HeaderFor(workers[w].addr),
                        from |-> workers[w].localIP,
                        hdr |-> Head(inbound[w]).hdr,
                        data |-> Head(inbound[w]).data]
    /\ UNCHANGED <<tunVars, wrVars, rdVars, fromGame, relayOut, plCall>>
    /\ UNCHANGED plOthers

\* The goroutine of a worker after handleWorker, with the payloads: the
\* entry is deleted under c.mut, and what is still in the channel goes to
\* the garbage collector with it.
PayloadWorkerDelete(w) ==
    /\ workers[w].st = "finished"
    /\ remoteAddrToDataCh' = Without(remoteAddrToDataCh, workers[w].addr)
    /\ workers' = Without(workers, w)
    /\ chans' = IF ClosesDataCh(w)
                THEN [chans EXCEPT ![w] = ChanClosed]
                ELSE Without(chans, w)
    /\ inbound' = [inbound EXCEPT ![w] = <<>>]
    /\ UNCHANGED <<remoteIPToLocalIP, nextLocalIP, nextCh, masterUDP, gwcLast>>
    /\ UNCHANGED <<tunVars, wrVars, rdVars, toGame, fromGame, relayOut, plCall>>
    /\ UNCHANGED plOthers

\* What a leg does with n bytes read from sender addr for the peer
\* remoteAddr: the datagram is dropped (unexpected sender, or empty), or
\* encoded and offered to the outbound queue, which drops it when full.
GameDatagram(remote, addr, data) ==
    IF UnexpectedAddr(addr) \/ EmptySkipped(Len(data))
    THEN UNCHANGED <<dataToServerCh, plCall>>
    ELSE LET r == EncodeAddrData(<<>>, remote, data) IN
         /\ plCall' = EncodeCall(remote, data)
         /\ dataToServerCh' =
              IF ~r.panic /\ Len(dataToServerCh) < OutboundCap
              THEN QueuePut(dataToServerCh, r.out)
              ELSE dataToServerCh

\* The datagrams a leg may read next for the peer addr4: the next payload
\* of the game, or nothing, from any of the senders.
GameDatagrams(addr4) ==
    [src : GameSenders, data : {<<>>, <<Len(fromGame[addr4]) + 1>>}]

\* The datagrams read from the game so far.
RECURSIVE ReadsOf(_)
ReadsOf(S) ==
    IF S = {} THEN 0
    ELSE LET a == CHOOSE x \in S : TRUE IN Len(fromGame[a]) + ReadsOf(S \ {a})
GameReads == ReadsOf(DOMAIN fromGame)

\* The read leg of the worker of channel w reads the datagram d before
\* its deadline.
WorkerReads(w, d) ==
    /\ workers[w].st = "run"
    /\ workers[w].rleg = "run"
    /\ ~workers[w].closed
    /\ GameReads < MaxGameDatagrams
    /\ fromGame' = [fromGame EXCEPT ![workers[w].addr] = Append(@, d)]
    /\ GameDatagram(RemoteAddr(workers[w].addr), d.src, d.data)
    /\ WorkerStep(w, workers[w])
    /\ UNCHANGED <<childDone, childCause, relayD>>
    /\ UNCHANGED <<chans, wrVars, rdVars, inbound, toGame, relayOut>>
    /\ UNCHANGED plOthers

\* The read leg of runMasterUDPProxy reads the datagram d.
MasterReads(d) ==
    /\ masterUDP.st = "run"
    /\ GameReads < MaxGameDatagrams
    /\ fromGame' = [fromGame EXCEPT ![MasterAddr] = Append(@, d)]
    /\ GameDatagram(masterAddr, d.src, d.data)
    /\ UNCHANGED <<childDone, childCause, relayD>>
    /\ UNCHANGED <<regVars, wrVars, rdVars, inbound, toGame, relayOut>>
    /\ UNCHANGED plOthers

\* The writer with the payloads: the oldest item of the outbound queue is
\* written to the tunnel, or the write fails and the writer returns.
PayloadWriterItem ==
    /\ wrPc = "select"
    /\ dataToServerCh # <<>>
    /\ dataToServerCh' = Tail(dataToServerCh)
    /\ wrTimer' = KeepAliveInterval
    /\ wrTick' = TickAfterReset(wrTick)
    /\ \/ /\ WriterGoesOn("item")
          /\ relayOut' = Append(relayOut, QueueTake(dataToServerCh))
       \/ /\ WriterWriteFailed
          /\ UNCHANGED relayOut
    /\ UNCHANGED <<relayD, asyncTimerChan>>
    /\ UNCHANGED <<rdVars, regVars, inbound, toGame, fromGame, plCall>>
    /\ UNCHANGED plOthers

(***************************************************************************)
(* c.mut: who holds it and who touches the maps of the registry            *)
(***************************************************************************)
\* The tasks that touch the registry: the reader and the goroutines that
\* getWorkerChan starts, one per worker.
WorkerTasks == {"w1", "w2", "w3"}
LockTasks == {"reader"} \cup WorkerTasks

LockIdle ==
    /\ mut = "free"
    /\ lkPc = [t \in LockTasks |-> "idle"]

LockStep(t, pc) == lkPc' = [lkPc EXCEPT ![t] = pc]

\* proxyMainLoopReader is called: its first statements come next.
LockReaderStart ==
    /\ lkPc["reader"] = "idle"
    /\ LockStep("reader", "register")
    /\ UNCHANGED mut
    /\ UNCHANGED lkOthers

\* c.remoteAddrToDataCh[masterAddrPortV4] = masterDataCh: the entry of the
\* master address is written with c.mut not taken.
LockReaderRegister ==
    /\ lkPc["reader"] = "register"
    /\ LockStep("reader", "read")
    /\ UNCHANGED mut
    /\ UNCHANGED lkOthers

\* conn.Read returns: an address-data frame (getWorkerChan is called), a
\* timeout (the probe is sent), a control byte or an empty datagram (the
\* loop goes on), or the reader returns and its deferred calls run.
LockReaderRead ==
    /\ lkPc["reader"] = "read"
    /\ \E pc \in {"lock", "probe", "read", "exit_lock"} : LockStep("reader", pc)
    /\ UNCHANGED mut
    /\ UNCHANGED lkOthers

\* select { case <-ctx.Done(): ... case c.dataToServerCh <- c.token[:]: }
LockReaderProbe ==
    /\ lkPc["reader"] = "probe"
    /\ \E pc \in {"read", "exit_lock"} : LockStep("reader", pc)
    /\ UNCHANGED mut
    /\ UNCHANGED lkOthers

\* c.mut.Lock(): the task waits until the mutex is free and takes it.  The
\* reader takes it in getWorkerChan and in its deferred reset, the
\* goroutine of a worker after handleWorker.
Held(pc) ==
    CASE pc = "lock" -> "lookup"
      [] pc = "exit_lock" -> "exit_reset"
      [] pc = "wlock" -> "delete"
LockAcquire(t) ==
    /\ lkPc[t] \in {"lock", "exit_lock", "wlock"}
    /\ mut = "free"
    /\ mut' = t
    /\ LockStep(t, Held(lkPc[t]))
    /\ UNCHANGED lkOthers

\* getWorkerChan under c.mut: the entry is there, or the maps are written
\* and the goroutine of a new worker started; the deferred Unlock runs.
LockReaderLookup ==
    /\ lkPc["reader"] = "lookup"
    /\ \/ LockStep("reader", "send")
       \/ \E w \in WorkerTasks :
            /\ lkPc[w] = "idle"
            /\ lkPc' = [lkPc EXCEPT !["reader"] = "send", ![w] = "handle"]
    /\ mut' = "free"
    /\ UNCHANGED lkOthers

\* select { case dataCh <- payload: default: }
LockReaderSend ==
    /\ lkPc["reader"] = "send"
    /\ LockStep("reader", "read")
    /\ UNCHANGED mut
    /\ UNCHANGED lkOthers

\* The deferred reset of the reader: the map is replaced under c.mut.
LockReaderReset ==
    /\ lkPc["reader"] = "exit_reset"
    /\ LockStep("reader", "exit_wait")
    /\ mut' = "free"
    /\ UNCHANGED lkOthers

\* defer wg.Wait() of the reader: every goroutine getWorkerChan started
\* has called wg.Done().  The variant that does not wait comes first.
WorkersJoinedAlways == TRUE
WorkersJoined == \A w \in WorkerTasks : lkPc[w] = "idle"

\* cancel(err), then wg.Wait(): the reader returns, and the next session
\* may call it again.
LockReaderWait ==
    /\ lkPc["reader"] = "exit_wait"
    /\ WorkersJoined
    /\ LockStep("reader", "idle")
    /\ UNCHANGED mut
    /\ UNCHANGED lkOthers

\* handleWorker returns.
LockWorkerHandle(w) ==
    /\ lkPc[w] = "handle"
    /\ LockStep(w, "wlock")
    /\ UNCHANGED mut
    /\ UNCHANGED lkOthers

\* delete(c.remoteAddrToDataCh, addr4) under c.mut, the deferred Unlock,
\* then wg.Done().
LockWorkerDelete(w) ==
    /\ lkPc[w] = "delete"
    /\ LockStep(w, "idle")
    /\ mut' = "free"
    /\ UNCHANGED lkOthers

(***************************************************************************)
(* Specifications                                                          *)
(***************************************************************************)
TunnelIdle == TunnelInit
RegistryIdle == RegistryInit

InitToken == TokenInit /\ RunIdle /\ TunnelIdle /\ WriterIdle /\ ReaderIdle /\ RegistryIdle /\ SessionIdle /\ ReadyInit /\ CodecIdle /\ KeyIdle /\ PayloadIdle /\ LockIdle
NextToken ==
    \/ sendTokenWrite
    \/ sendTokenRead
    \/ sendTokenSleep
SpecToken == InitToken /\ [][NextToken]_vars

\* sendToken runs on its goroutine: a write or a read with a deadline and a
\* sleep each come to an end.
SpecTokenLive == SpecToken /\ WF_vars(NextToken)

InitRun == RunInit /\ TokenIdle /\ TunnelIdle /\ WriterIdle /\ ReaderIdle /\ RegistryIdle /\ SessionIdle /\ ReadyInit /\ CodecIdle /\ KeyIdle /\ PayloadIdle /\ LockIdle
NextRun ==
    \/ RunCancel
    \/ RunStartSession
    \/ RunWithoutRetriesReturns
    \/ RunAfterSession
    \/ RunSleepDone
SpecRun == InitRun /\ [][NextRun]_vars

InitWriter == WriterInit /\ TunnelInit /\ TokenIdle /\ RunIdle /\ ReaderIdle /\ RegistryIdle /\ SessionIdle /\ ReadyInit /\ CodecIdle /\ KeyIdle /\ PayloadIdle /\ LockIdle
NextWriter ==
    \/ WriterItem
    \/ WriterTick
    \/ WriterCancelled
    \/ WriterSecond
    \/ WriterEnqueue
    \/ WriterCancel
SpecWriter == InitWriter /\ [][NextWriter]_vars

\* The registry: the reader hands the address-data frames of one peer to
\* the workers, the workers run and end, the session ends and the next one
\* starts.
RegistryPeer == [ip |-> 1, port |-> 1]

InitRegistry ==
    /\ RegistryInit /\ ReaderLaunched /\ TunnelInit
    /\ WriterIdle /\ TokenIdle /\ RunIdle /\ SessionIdle /\ ReadyInit /\ CodecIdle /\ KeyIdle /\ PayloadIdle /\ LockIdle
NextRegistry ==
    \/ ReaderStart
    \/ \E d \in ReaderDatagrams : d.addr \in {NoAddr, RegistryPeer} /\ ReaderDatagram(d)
    \/ ReaderReadError
    \/ ReaderExitReset
    \/ ReaderExitCancel
    \/ ReaderExitWait
    \/ \E w \in DOMAIN workers : WorkerListen(w)
    \/ \E w \in DOMAIN workers : WorkerCtxClose(w)
    \/ \E w \in DOMAIN workers : WorkerWriteLeg(w)
    \/ \E w \in DOMAIN workers : WorkerReadLeg(w)
    \/ \E w \in DOMAIN workers : WorkerReturns(w)
    \/ \E w \in DOMAIN workers : WorkerDelete(w)
    \/ MasterUDPStops
    \/ StaleMasterUDPStops
    \/ RegistryDrain
    \/ RegistryCancel
    \/ RegistryRelaunch
SpecRegistry == InitRegistry /\ [][NextRegistry]_vars

\* The hot path: the reader hands the frames of several peers to their
\* workers while the workers run, stall or end, and nothing takes frames
\* off the outbound queue.
HotPeers == {[ip |-> 1, port |-> 1], [ip |-> 2, port |-> 1]}

InitHotPath ==
    /\ RegistryInit /\ ReaderLaunched /\ TunnelInit
    /\ WriterIdle /\ TokenIdle /\ RunIdle /\ SessionIdle /\ ReadyInit /\ CodecIdle /\ KeyIdle /\ PayloadIdle /\ LockIdle
NextHotPath ==
    \/ ReaderStart
    \/ \E d \in ReaderDatagrams :
          /\ d.len = AddrSize + 1
          /\ d.first = "x"
          /\ d.addr \in HotPeers
          /\ ReaderDatagram(d)
    \/ \E w \in DOMAIN workers : WorkerListen(w)
    \/ \E w \in DOMAIN workers : WorkerWriteLeg(w)
    \/ \E w \in DOMAIN workers : WorkerReadLeg(w)
    \/ \E w \in DOMAIN workers : WorkerReturns(w)
    \/ \E w \in DOMAIN workers : WorkerDelete(w)
SpecHotPath == InitHotPath /\ [][NextHotPath]_vars

\* The master address beside an ordinary peer, over the sessions of one
\* client: the reader registers the master address and starts
\* runMasterUDPProxy in every session.
MasterDatagram ==
    [len |-> AddrSize + 1, first |-> "x", addr |-> MasterAddr]
PeerDatagram ==
    [len |-> AddrSize + 1, first |-> "x", addr |-> RegistryPeer]

InitMaster ==
    /\ RegistryInit /\ ReaderLaunched /\ TunnelInit
    /\ WriterIdle /\ TokenIdle /\ RunIdle /\ SessionIdle /\ ReadyInit /\ CodecIdle /\ KeyIdle /\ PayloadIdle /\ LockIdle
NextMaster ==
    \/ ReaderStart
    \/ ReaderDatagram(MasterDatagram)
    \/ ReaderDatagram(PeerDatagram)
    \/ ReaderReadError
    \/ ReaderExitReset
    \/ ReaderExitCancel
    \/ ReaderExitWait
    \/ \E w \in DOMAIN workers : WorkerListen(w)
    \/ \E w \in DOMAIN workers : WorkerCtxClose(w)
    \/ \E w \in DOMAIN workers : WorkerWriteLeg(w)
    \/ \E w \in DOMAIN workers : WorkerReadLeg(w)
    \/ \E w \in DOMAIN workers : WorkerReturns(w)
    \/ \E w \in DOMAIN workers : WorkerDelete(w)
    \/ MasterUDPWriteLeg
    \/ MasterUDPReadLeg
    \/ MasterUDPStops
    \/ StaleMasterUDPStops
    \/ RegistryRelaunch
SpecMaster == InitMaster /\ [][NextMaster]_vars

\* The dispatch of the frames of one peer in two steps, the lookup and the
\* send, with the workers running in between, and the end of the reader.
InitDispatch ==
    /\ RegistryInit /\ ReaderLaunched /\ TunnelInit
    /\ WriterIdle /\ TokenIdle /\ RunIdle /\ SessionIdle /\ ReadyInit /\ CodecIdle /\ KeyIdle /\ PayloadIdle /\ LockIdle
NextDispatch ==
    \/ ReaderStart
    \/ \E d \in ReaderDatagrams : d.addr = RegistryPeer /\ ReaderLookup(d)
    \/ ReaderSend
    \/ ReaderReadError
    \/ ReaderExitReset
    \/ ReaderExitCancel
    \/ ReaderExitWait
    \/ \E w \in DOMAIN workers : WorkerListen(w)
    \/ \E w \in DOMAIN workers : WorkerCtxClose(w)
    \/ \E w \in DOMAIN workers : WorkerWriteLeg(w)
    \/ \E w \in DOMAIN workers : WorkerReadLeg(w)
    \/ \E w \in DOMAIN workers : WorkerReturns(w)
    \/ \E w \in DOMAIN workers : WorkerDelete(w)
    \/ MasterUDPStops
SpecDispatch == InitDispatch /\ [][NextDispatch]_vars

\* The synthetic local IPs: the reader hands the shortest address-data
\* frames of all the peers to the workers; a worker that cannot bind its
\* socket ends and leaves the registry.
InitLocalIP ==
    /\ RegistryInit /\ ReaderLaunched /\ TunnelInit
    /\ WriterIdle /\ TokenIdle /\ RunIdle /\ SessionIdle /\ ReadyInit /\ CodecIdle /\ KeyIdle /\ PayloadIdle /\ LockIdle
NextLocalIP ==
    \/ ReaderStart
    \/ \E d \in ReaderDatagrams :
          /\ d.len = AddrSize + 1
          /\ d.first = "x"
          /\ ReaderDatagram(d)
    \/ \E w \in DOMAIN workers : WorkerListen(w)
    \/ \E w \in DOMAIN workers : WorkerDelete(w)
SpecLocalIP == InitLocalIP /\ [][NextLocalIP]_vars

\* The reader against a relay that sends control bytes, empty datagrams
\* or nothing, in seconds.
InitReader ==
    /\ ReaderLaunched /\ RegistryInit /\ TunnelInit
    /\ WriterIdle /\ TokenIdle /\ RunIdle /\ SessionIdle /\ ReadyInit /\ CodecIdle /\ KeyIdle /\ PayloadIdle /\ LockIdle
NextReader ==
    \/ ReaderStart
    \/ ReaderTimeout
    \/ ReaderProbe
    \/ \E d \in ReaderDatagrams : ~IsAddrData(d) /\ ReaderDatagram(d)
    \/ ReaderReadError
    \/ ReaderExitReset
    \/ ReaderExitCancel
    \/ ReaderExitWait
    \/ MasterUDPStops
    \/ RegistryDrain
    \/ RegistryCancel
SpecReader == InitReader /\ [][NextReader]_vars

\* One session from connect() on, against a relay that sends control
\* bytes and answers a 'd' with 'D' or not at all.
\* One session from the call of RunWithoutRetries to its return, with the
\* address the relay gives it.
SessionAddr == [ip |-> 1, port |-> 1]

InitSession ==
    /\ SessionInit /\ TunnelInit /\ ReaderIdle /\ WriterIdle
    /\ RegistryInit /\ TokenIdle /\ RunIdle /\ ReadyInit /\ CodecIdle /\ KeyIdle /\ PayloadIdle /\ LockIdle
NextSession ==
    \/ ExternalCancel
    \/ SupResolve(SessionAddr.ip)
    \/ SupConnect(SessionAddr.port)
    \/ SupSpawn
    \/ SupCtxDone
    \/ SupJoin
    \/ TcpListen
    \/ TcpAcceptFails
    \/ PxDial
    \/ PxToken
    \/ PxSelect
    \/ PxDrainSend
    \/ PxDrainWait
    \/ PxJoin
    \/ ReaderStart
    \/ \E d \in ReaderDatagrams : ~IsAddrData(d) /\ ReaderDatagram(d)
    \/ ReaderAnswer
    \/ ReaderReadError
    \/ ReaderExitReset
    \/ ReaderExitCancel
    \/ ReaderExitWait
    \/ MasterUDPStops
    \/ WriterItem
    \/ WriterCancelled
SpecSession == InitSession /\ [][NextSession]_vars

\* runProxyClient to its return, while runMasterUDPProxy forwards datagrams
\* of the game: frames fill the outbound queue beside the 'd' bytes.  The
\* session is taken from the point where RunWithoutRetries has started its
\* two children and waits for its context, the master TCP proxy listens
\* and runProxyClient has dialled the relay; the context of the session is
\* cancelled from outside only.
SessionSpawned ==
    /\ extDone = FALSE
    /\ sessDone = FALSE
    /\ sessCause = ""
    /\ supPc = "wait"
    /\ supErr = ""
    /\ tcpPc = "accept"
    /\ tcpErr = ""
    /\ pxPc = "token"
    /\ pxRetry = 0
    /\ pxErr = ""
    /\ graceful = FALSE

\* connect() has returned the port and c.ready is closed.
ReadySignalled ==
    /\ ready = 1
    /\ signalled = <<ProxyAddr(SessionAddr.ip, SessionAddr.port)>>
    /\ serverIP = SessionAddr.ip
    /\ port = SessionAddr.port
    /\ sessNo = 0
    /\ gpaPc = "idle"
    /\ gpaCh = 0
    /\ gpaIP = 0
    /\ gpaRet = ""

InitShutdown ==
    /\ SessionSpawned /\ ReadySignalled /\ TunnelInit /\ ReaderIdle /\ WriterIdle
    /\ RegistryInit /\ TokenIdle /\ RunIdle /\ CodecIdle /\ KeyIdle /\ PayloadIdle /\ LockIdle
NextShutdown ==
    \/ ExternalCancel
    \/ PxToken
    \/ PxSelect
    \/ PxDrainSend
    \/ PxDrainWait
    \/ PxJoin
    \/ ReaderStart
    \/ ReaderAnswer
    \/ ReaderReadError
    \/ ReaderExitReset
    \/ ReaderExitCancel
    \/ ReaderExitWait
    \/ MasterUDPReadLeg
    \/ MasterUDPStops
    \/ WriterItem
    \/ WriterCancelled
SpecShutdown == InitShutdown /\ [][NextShutdown]_vars

\* The same with the scheduling of the goroutines: each goroutine that can
\* take a step takes one; a socket closed under a blocked read or accept
\* makes the call return; a goroutine blocked in a send is served when room
\* is made, in the order of the channel's queue of senders.  The caller's
\* cancellation, the relay and the game are under no obligation.
PxStep == PxToken \/ PxSelect \/ PxDrainSend \/ PxDrainWait \/ PxJoin
ReaderUnblocks ==
    \/ ReaderStart
    \/ childDone /\ ReaderReadError
    \/ ReaderExitReset
    \/ ReaderExitCancel
    \/ ReaderExitWait
WriterStep == WriterItem \/ WriterCancelled
SpecShutdownLive ==
    /\ SpecShutdown
    /\ SF_vars(PxStep)
    /\ WF_vars(ReaderUnblocks)
    /\ WF_vars(WriterStep)
    /\ WF_vars(MasterUDPStops)

\* The sessions of one Run, each from its start to ready and to its end,
\* beside calls of GetProxyAddr.
InitReady ==
    /\ SessionInit /\ ReadyInit /\ TunnelIdle /\ ReaderIdle /\ WriterIdle
    /\ RegistryIdle /\ TokenIdle /\ RunIdle /\ CodecIdle /\ KeyIdle /\ PayloadIdle /\ LockIdle
NextReady ==
    \/ \E ip \in ServerIPs : SupResolve(ip)
    \/ \E p \in Ports : SupConnect(p)
    \/ SupSession
    \/ RunRetry
    \/ GetProxyAddrCall
    \/ GetProxyAddrReady
    \/ GetProxyAddrTimeout
    \/ GetProxyAddrReadIP
    \/ GetProxyAddrReadPort
SpecReady == InitReady /\ [][NextReady]_vars

\* The codec applied to the arguments of CodecInit.
InitCodec ==
    /\ CodecInit /\ TokenIdle /\ RunIdle /\ TunnelIdle /\ WriterIdle /\ ReaderIdle
    /\ RegistryIdle /\ SessionIdle /\ ReadyInit /\ KeyIdle /\ PayloadIdle /\ LockIdle
NextCodec ==
    \/ CodecEncode
    \/ CodecDecode
SpecCodec == InitCodec /\ [][NextCodec]_vars

\* DecodeAddrData applied to the datagrams of RawInit.
InitDecode ==
    /\ RawInit /\ TokenIdle /\ RunIdle /\ TunnelIdle /\ WriterIdle /\ ReaderIdle
    /\ RegistryIdle /\ SessionIdle /\ ReadyInit /\ KeyIdle /\ PayloadIdle /\ LockIdle
NextDecode == CodecDecodeRaw
SpecDecode == InitDecode /\ [][NextDecode]_vars

\* The user key rendered, typed, normalised and parsed, and to JSON and
\* back.
InitKey ==
    /\ KeyInit /\ TokenIdle /\ RunIdle /\ TunnelIdle /\ WriterIdle /\ ReaderIdle
    /\ RegistryIdle /\ SessionIdle /\ ReadyInit /\ CodecIdle /\ PayloadIdle /\ LockIdle
NextKey ==
    \/ KeyString
    \/ \E pre \in Margins, lower \in BOOLEAN, post \in Margins : KeyTyped(pre, lower, post)
    \/ KeyNormalize
    \/ KeyFromString
    \/ KeyMarshal
    \/ KeyUnmarshal
SpecKey == InitKey /\ [][NextKey]_vars

\* The way down and back: frames of two peers of one address come down
\* the tunnel between control bytes, the workers listen (or fail to, and
\* are made again) and write to the game, and the game answers, every
\* time with another payload.  Nothing empties the outbound queue.
GameAnswer == [src |-> gameAddr, data |-> <<GameReads + 1>>]
InitDownlink ==
    /\ RegistryInit /\ ReaderLaunched /\ TunnelInit /\ WriterIdle
    /\ TokenIdle /\ RunIdle /\ SessionIdle /\ ReadyInit /\ CodecIdle /\ KeyIdle
    /\ PayloadIdle /\ LockIdle
NextDownlink ==
    \/ ReaderStart
    \/ \E buf \in PeerFrames \cup ControlDatagrams : PayloadDispatch(buf)
    \/ \E w \in DOMAIN workers : WorkerListen(w)
    \/ \E w \in DOMAIN workers : PayloadWriteLeg(w)
    \/ \E w \in DOMAIN workers : PayloadWorkerDelete(w)
    \/ \E w \in DOMAIN workers : WorkerReads(w, GameAnswer)
SpecDownlink == InitDownlink /\ [][NextDownlink]_vars

\* The way up, from a state the way down reaches: the workers of the two
\* peers and runMasterUDPProxy run, each has written one payload to the
\* game.  The game and others send to the local sockets, the writer
\* empties the outbound queue; the relay is silent.
UplinkStart ==
    /\ remoteAddrToDataCh =
         [a \in PayloadPeers \cup {MasterAddr} |->
            IF a = MasterAddr THEN MasterCh ELSE a.port]
    /\ remoteIPToLocalIP = [ip \in {1} |-> LocalIPStart]
    /\ nextLocalIP = NextIP(LocalIPStart)
    /\ nextCh = 2
    /\ chans = [ch \in 0..2 |-> 0]
    /\ workers =
         [ch \in 1..2 |->
            [addr |-> [ip |-> 1, port |-> ch], localIP |-> LocalIPStart,
             st |-> "run", rleg |-> "run", wleg |-> "run", closed |-> FALSE,
             timedOut |-> FALSE]]
    /\ masterUDP = [st |-> "run", stale |-> FALSE]
    /\ gwcLast = [addr |-> [ip |-> 1, port |-> 2], ch |-> 2]
    /\ rdPc = "read" /\ rdErr = "" /\ rdElapsed = 0 /\ rdCancelled = FALSE /\ rdProbes = 0
    /\ inbound = NoChannels
    /\ toGame = [by |-> <<0, 0, 0, 1, 2, 0>>, from |-> LocalIPStart,
                 hdr |-> <<0, 0, 0, 1, 2, 0>>, data |-> <<7>>]
    /\ fromGame = NoReads
    /\ relayOut = <<>>
    /\ plCall = DecodeCall(FrameOf([ip |-> 1, port |-> 2], <<7>>))
InitUplink ==
    /\ UplinkStart /\ TunnelInit /\ WriterInit
    /\ TokenIdle /\ RunIdle /\ SessionIdle /\ ReadyInit /\ CodecIdle /\ KeyIdle
    /\ LockIdle
NextUplink ==
    \/ \E w \in DOMAIN workers : \E d \in GameDatagrams(workers[w].addr) : WorkerReads(w, d)
    \/ \E d \in GameDatagrams(MasterAddr) : MasterReads(d)
    \/ PayloadWriterItem
SpecUplink == InitUplink /\ [][NextUplink]_vars

\* The codec at work in both directions, for one peer and the master
\* server: every datagram the tunnel may deliver is dispatched, the worker
\* and runMasterUDPProxy read what the game and others send, with and
\* without a payload.  Nothing empties the channels.
CodecPeer == [ip |-> 1, port |-> 1]
InitCodecUse ==
    /\ RegistryInit /\ ReaderLaunched /\ TunnelInit /\ WriterIdle
    /\ TokenIdle /\ RunIdle /\ SessionIdle /\ ReadyInit /\ CodecIdle /\ KeyIdle
    /\ PayloadIdle /\ LockIdle
NextCodecUse ==
    \/ ReaderStart
    \/ \E buf \in {FrameOf(CodecPeer, <<7>>)} \cup ControlDatagrams : PayloadDispatch(buf)
    \/ \E w \in DOMAIN workers : WorkerListen(w)
    \/ \E w \in DOMAIN workers : \E d \in GameDatagrams(workers[w].addr) : WorkerReads(w, d)
    \/ \E d \in GameDatagrams(MasterAddr) : MasterReads(d)
SpecCodecUse == InitCodecUse /\ [][NextCodecUse]_vars

\* The reader and the goroutines of three workers around c.mut, over the
\* sessions of one client.
InitLock ==
    /\ RegistryIdle /\ ReaderIdle /\ TunnelIdle /\ WriterIdle
    /\ TokenIdle /\ RunIdle /\ SessionIdle /\ ReadyInit /\ CodecIdle /\ KeyIdle
    /\ PayloadIdle /\ LockIdle
NextLock ==
    \/ LockReaderStart
    \/ LockReaderRegister
    \/ LockReaderRead
    \/ LockReaderProbe
    \/ \E t \in LockTasks : LockAcquire(t)
    \/ LockReaderLookup
    \/ LockReaderSend
    \/ LockReaderReset
    \/ LockReaderWait
    \/ \E w \in WorkerTasks : LockWorkerHandle(w)
    \/ \E w \in WorkerTasks : LockWorkerDelete(w)
SpecLock == InitLock /\ [][NextLock]_vars

(***************************************************************************)
(* Claims about sendToken (SpecToken)                                      *)
(***************************************************************************)
\* C4: sendToken writes exactly one token datagram per attempt and goes on
\* until a reply whose first byte is 'K' arrives: while it runs, and when it
\* succeeds, the datagrams written are the replies that did not end it
\* (ignored or not 'K') plus the one of the attempt in progress; it has
\* succeeded exactly when the last reply read starts with 'K'; against a
\* relay that ignores two datagrams and answers the third with 'K' it
\* succeeds after exactly three writes.
C4_OneTokenPerAttempt ==
    /\ tkPc \in {"read", "ok"} => tkWrites = tkIgnored + tkJunk + 1
    /\ tkPc \in {"write", "sleep"} => tkWrites = tkIgnored + tkJunk
    /\ tkPc = "ok" <=> (tkLast.len > 0 /\ tkLast.first = ProxyServerResponseTypeKeepAlive)
    /\ (tkPc = "ok" /\ tkIgnored = 2 /\ tkJunk = 0) => tkWrites = 3

C4_Witness ==
    /\ tkPc = "ok"
    /\ tkIgnored = 2
    /\ tkJunk = 0
    /\ tkWrites = 3
    /\ tkLast = [len |-> 1, first |-> ProxyServerResponseTypeKeepAlive]

\* Writes sendToken can make before the write deadline: every attempt that
\* does not end it sleeps 100 ms.
MaxTokenWrites == TokenWriteDeadline \div TokenSleep

\* C15: sendToken always returns.  It returns nil only on a 'K'; a write
\* after the 5 s write deadline returns an error; a read error other than a
\* timeout returns an error at once; and it writes at most 50 tokens.
C15_HandshakeTerminates ==
    /\ <>(tkPc \in {"ok", "fail"})
    /\ [](tkPc = "ok" => TokenAccepted(tkLast))
    /\ [](tkPc = "fail" <=> tkErr # "")
    /\ [][tkPc = "write" /\ tkClock >= TokenWriteDeadline =>
             tkPc' = "fail" /\ tkErr' = "token: failed to write"]_vars
    /\ [][tkErr' = "token: failed to read" =>
             tkPc = "read" /\ tkPc' = "fail"]_vars
    /\ [][tkWrites' <= MaxTokenWrites]_vars

\* The relay never answered: sendToken has failed on the first write after
\* the deadline, 25 tokens written.
C15_Witness ==
    /\ tkPc = "fail"
    /\ tkErr = "token: failed to write"
    /\ tkClock = TokenWriteDeadline
    /\ tkIgnored = 25
    /\ tkJunk = 0
    /\ tkWrites = 25

(***************************************************************************)
(* Claims about Run (SpecRun)                                              *)
(***************************************************************************)
\* A pass through Run's loop after a session that returned an error other
\* than context.Canceled.
RunFailedPass == runPc = "after" /\ runPc' # "after" /\ sessErr = "failed"

\* C9 as stated: a session that fails before signalling ready makes Run
\* return that session's error at once, whatever happened in earlier sessions.
C9_Original ==
    [][RunFailedPass /\ ~sessReadied => runPc' = "returned" /\ runErr' = sessErr]_vars

\* C9 as amended: a session that fails before signalling ready makes Run
\* return that session's error at once, with no wait and no further session,
\* as long as no earlier session of this Run was recoverable; after a
\* recoverable session such a failure counts as one more failed attempt:
\* Run waits 2^attempt seconds and starts another session, and returns the
\* error at the 6th consecutive failure or when its context is cancelled.
C9_PreReadyFailure ==
    [][RunFailedPass /\ ~sessReadied =>
          IF ~lastSuccRunSet
          THEN runPc' = "returned" /\ runErr' = sessErr /\ runDelay' = 0
          ELSE \/ runCtxDone /\ runPc' = "returned" /\ runErr' = sessErr
               \/ /\ ~runCtxDone
                  /\ attempt' = attempt + 1
                  /\ IF attempt' > MaxAttempts
                     THEN runPc' = "returned" /\ runErr' = sessErr
                     ELSE runPc' = "sleep" /\ runDelay' = 2 ^ attempt']_vars

C9_Witness ==
    /\ runPc = "returned"
    /\ runErr = "failed"
    /\ sessErr = "failed"
    /\ ~sessReadied
    /\ ~lastSuccRunSet
    /\ sessPre > 0

\* C10 as stated: a failed session resets the attempt counter and marks the
\* run recoverable exactly when it ran at least 10 seconds after its ready
\* signal, the time before ready not counting.
C10_Original ==
    [][RunFailedPass => (runReset' <=> (sessReadied /\ sessPost >= RecoverAfter))]_vars

\* C10 as amended: a failed session resets the attempt counter to 0 (so that
\* this failure is attempt 1) and marks the run recoverable only when it had
\* signalled ready and more than 10 seconds have passed since the session was
\* started, the time before ready (resolving, admission) included; and it
\* always does so in that case unless Run's context has been cancelled.
C10_RecoverableSession ==
    [][RunFailedPass =>
          /\ runReset' => /\ sessReadied
                          /\ sessPre + sessPost > RecoverAfter
                          /\ lastSuccRunSet'
                          /\ attempt' = 1
                          /\ runPc' = "sleep"
          /\ (sessReadied /\ sessPre + sessPost > RecoverAfter /\ ~runCtxDone)
                => runReset'
          /\ ~runReset' => lastSuccRunSet' = lastSuccRunSet]_vars

C10_Witness ==
    /\ runReset
    /\ runPc = "sleep"
    /\ attempt = 1
    /\ lastSuccRunSet
    /\ sessPre > 0
    /\ sessPost < RecoverAfter

\* The waits of the claim, in seconds, by the number of the failure.
BackoffTable == <<2, 4, 8, 16, 32>>

\* C11: once the run is recoverable, the k-th consecutive failed session
\* (k = 1..5, counted from the session that was recoverable) is followed by
\* a wait of 2^k seconds and a new session, and the 6th makes Run return the
\* error, as long as Run's context is not cancelled; the attempt counter
\* stays within 0..6 and no more than 5 sessions are started after a wait
\* without a recovery in between.
C11_BoundedBackoff ==
    /\ [](/\ attempt \in 0..6
          /\ reconnects \in 0..5
          /\ runPc = "sleep" => /\ attempt \in 1..5
                                /\ runDelay = BackoffTable[attempt]
                                /\ reconnects = attempt - 1)
    /\ [][RunFailedPass /\ ~runCtxDone /\ lastSuccRunSet' =>
             /\ attempt' = reconnects' + 1
             /\ IF attempt' <= 5
                THEN runPc' = "sleep" /\ runDelay' = BackoffTable[attempt']
                ELSE runPc' = "returned" /\ runErr' = sessErr]_vars
    /\ [][runPc = "sleep" /\ runPc' # "sleep" =>
             runPc' = "top" /\ attempt' = attempt]_vars
    /\ [][runPc = "top" /\ runPc' # "top" => runPc' = "session"]_vars

\* Run has returned the error of the 6th consecutive failure, after five
\* sessions started after a wait.
C11_Witness ==
    /\ runPc = "returned"
    /\ runErr = "failed"
    /\ attempt = 6
    /\ reconnects = 5
    /\ ~runCtxDone

\* C12 as stated: once the context passed to Run is cancelled, Run starts
\* no other session, and it returns nil.
C12_Original ==
    /\ [][runCtxDone => ~(runPc = "top" /\ runPc' = "session")]_vars
    /\ [](runPc = "returned" /\ runCtxDone => runErr = "nil")

\* C12: a session has been started although the context had been cancelled
\* (during the wait before it).
C12_Witness ==
    /\ runPc = "session"
    /\ sessLate
    /\ runCtxDone
    /\ reconnects > 0

(***************************************************************************)
(* C6: while the outbound queue stays empty the writer writes exactly one  *)
(* 'k' per 3-second ticker period; every item taken from the queue is      *)
(* written and restarts the period, so no 'k' is written less than 3       *)
(* seconds after an outbound item.                                         *)
(***************************************************************************)
\* One 'k' per idle period: a 'k' that follows a 'k' (or the start) with no
\* item between comes exactly one period later, and a running writer is
\* never silent for longer than a period.
C6_OnePerIdlePeriod ==
    /\ wrWrote = ProxyClientRequestTypeKeepAlive /\ wrPrev # "item"
           => wrGap = KeepAliveInterval
    /\ wrPc = "select" => wrSinceWrite <= KeepAliveInterval

\* An item taken from the queue was written and the period started again.
C6_ItemRestartsPeriod ==
    wrWrote = "item" => wrTimer = KeepAliveInterval /\ wrSinceItem = 0

Dispatch(a) ==
    \E d \in ReaderDatagrams : IsAddrData(d) /\ d.addr = a /\ ReaderDatagram(d)

\* The worker goroutines spawned for the address a that are not done yet.
WorkersOf(a) == {w \in DOMAIN workers : workers[w].addr = a}

\* C1: a call of getWorkerChan for an address that has an entry returns the
\* channel of that entry and spawns nothing, so two successive calls for
\* one address return the same channel; a call for an address without an
\* entry spawns exactly one worker; and in every reachable state there is at
\* most one worker goroutine per address, whatever the interleaving of
\* calls, worker exits and session ends.
C1_OneWorkerPerAddr ==
    /\ [](\A a \in PeerAddrs : Cardinality(WorkersOf(a)) <= 1)
    /\ [](gwcLast # NoCall /\ HasWorkerChan(gwcLast.addr)
            => remoteAddrToDataCh[gwcLast.addr] = gwcLast.ch)
    /\ [][\A a \in PeerAddrs : Dispatch(a) =>
            IF HasWorkerChan(a)
            THEN /\ gwcLast'.ch = remoteAddrToDataCh[a]
                 /\ workers' = workers
                 /\ remoteAddrToDataCh' = remoteAddrToDataCh
            ELSE /\ gwcLast'.ch \notin DOMAIN workers
                 /\ DOMAIN workers' = DOMAIN workers \cup {gwcLast'.ch}
                 /\ WorkersOf(a) = {}]_vars

\* C1: two calls for one address have put their payloads into one channel,
\* the channel of the one worker of that address.
C1_Witness ==
    \E a \in PeerAddrs :
        /\ gwcLast.addr = a
        /\ WorkersOf(a) = {gwcLast.ch}
        /\ chans[gwcLast.ch] = 2

\* C7 as the specification states it: once the read leg of a worker has
\* timed out, the first frame for the address of that worker spawns a
\* fresh worker (a new channel and socket) with the same synthetic local IP.
C7_Original ==
    [][\A a \in PeerAddrs :
          Dispatch(a) /\ (\E w \in WorkersOf(a) : workers[w].timedOut) =>
              /\ gwcLast'.ch \notin DOMAIN workers
              /\ gwcLast'.ch \in DOMAIN workers'
              /\ \A w \in WorkersOf(a) :
                     workers'[gwcLast'.ch].localIP = workers[w].localIP]_vars

\* C7: the read leg of a worker has timed out, the session goes on, and the
\* worker keeps its registry entry with its write leg waiting on the empty
\* channel: only a frame for the address or the end of the session wakes
\* it, and the next frame for the address is put into that channel.
C7_Witness ==
    \E w \in DOMAIN workers :
        /\ workers[w].timedOut
        /\ workers[w].wleg = "run"
        /\ chans[w] = 0
        /\ ~WorkerCtxDone
        /\ HasWorkerChan(workers[w].addr)
        /\ remoteAddrToDataCh[workers[w].addr] = w

\* C7, what does hold: the address gets a fresh worker once the old one has
\* deleted its entry, and every worker of one remote IP has the same
\* synthetic local IP.
C7_SameLocalIP ==
    \A w \in DOMAIN workers :
        /\ workers[w].addr.ip \in DOMAIN remoteIPToLocalIP
        /\ workers[w].localIP = remoteIPToLocalIP[workers[w].addr.ip]

(***************************************************************************)
(* Claims about the reader (SpecReader)                                    *)
(***************************************************************************)
\* The reader leaves the select of its probe.
ProbeEnds == rdPc = "probe" /\ rdPc' # "probe"

\* A probe is queued: one copy of the token, and the reader reads on.
ProbeQueued ==
    /\ dataToServerCh' = Append(dataToServerCh, "token")
    /\ rdPc' = "read"

\* What a read timeout does: past the threshold the reader fails, before
\* it the reader turns to its probe.
TimeoutOutcome ==
    ReaderTimeout =>
        IF rdElapsed' > ServerTimeout
        THEN rdPc' = "exit_reset" /\ rdErr' = "main-loop: server stopped responding"
        ELSE rdPc' = "probe" /\ rdErr' = rdErr

\* C5 as the specification states it: every read timeout before the
\* threshold queues one copy of the token and the reader keeps running.
C5_Original == [][TimeoutOutcome /\ (ProbeEnds => ProbeQueued)]_vars

\* C5: a read timeout more than 30 s after the last successful read makes
\* the reader fail with "server stopped responding", which ends the
\* session; a read timeout before that makes the reader queue one copy of
\* the token and read on, unless its context is cancelled by then: in that
\* case it may return the context's error and queue nothing.
C5_TimeoutProbeOrFail ==
    [][/\ TimeoutOutcome
       /\ ProbeEnds =>
             \/ ProbeQueued
             \/ /\ WorkerCtxDone
                /\ rdPc' = "exit_reset" /\ rdErr' = "canceled"
                /\ dataToServerCh' = dataToServerCh
       /\ rdPc = "exit_wait" /\ rdPc' = "done"
             /\ rdErr = "main-loop: server stopped responding" /\ ~childDone
             => childCause' = "main loop reader: main-loop: server stopped responding"
      ]_vars

\* C5: the reader has failed with "server stopped responding" after three
\* timeouts that queued a probe each.
C5_Witness ==
    /\ rdErr = "main-loop: server stopped responding"
    /\ rdProbes = 3
    /\ rdElapsed > ServerTimeout

(***************************************************************************)
(* Claims about one session (SpecSession)                                  *)
(***************************************************************************)
Draining == pxPc \in {"drain_send", "drain_wait"}

\* C2: runProxyClient turns to the disconnect loop only once the context
\* of the session is cancelled.  It is the only one to queue the 'd' byte,
\* one per attempt and in attempts 0 to 9 only, so at most 10 times.  It
\* returns nil from the wait of an attempt as soon as the context of the
\* reader and the writer is done, and starts another attempt only if that
\* context was still alive when the 100 ms were over.  After the 10th wait
\* it returns "failed to disconnect".
C2_DisconnectLoop ==
    /\ [](pxRetry <= DrainRetries /\ (Draining => sessDone))
    /\ [][/\ dataToServerCh' = Append(dataToServerCh, ProxyClientRequestTypeDisconnect)
                => /\ pxPc = "drain_send" /\ pxRetry < DrainRetries
                   /\ pxPc' = "drain_wait" /\ pxRetry' = pxRetry
          /\ pxPc = "drain_send" /\ pxPc' = "drain_wait"
                => dataToServerCh' = Append(dataToServerCh, ProxyClientRequestTypeDisconnect)
          /\ pxPc = "drain_wait" /\ pxPc' = "drain_send"
                => ~childDone /\ pxRetry' = pxRetry + 1
          /\ pxPc = "drain_wait" /\ pxPc' = "join"
                => childDone /\ pxErr' = "nil"
          /\ pxPc = "drain_send" /\ pxPc' = "join"
                => pxRetry = DrainRetries /\ pxErr' = "failed to disconnect"
          /\ Draining => pxPc' \in {"drain_send", "drain_wait", "join"}
         ]_vars

\* C2: the relay never answered, runProxyClient has given up after ten
\* attempts.
C2_Witness ==
    /\ pxPc = "done"
    /\ pxErr = "failed to disconnect"
    /\ pxRetry = DrainRetries
    /\ relayD = 0

\* C3: when the relay's 'D' in answer to a 'd' reaches the reader, the
\* reader returns nil and, once it is done, the context of the reader and
\* the writer is done; runProxyClient, which is in its disconnect loop,
\* returns nil unless its ten attempts are over; and RunWithoutRetries
\* returns context.Canceled after a cancellation of a running session from
\* outside, which Run turns into nil.
C3_DisconnectAnswered ==
    /\ [][relayD = 1 /\ relayD' = 2
            => rdPc = "read" /\ rdPc' = "exit_reset" /\ rdErr' = "nil"]_vars
    /\ [](relayD = 2 /\ rdPc = "done" => childDone)
    /\ [](relayD = 2 /\ pxPc \in {"join", "done"} /\ pxRetry < DrainRetries
            => pxErr = "nil")
    /\ [](graceful /\ supPc \in {"join", "returned"}
            => supErr = "canceled" /\ RunReturnsNil(supErr))

\* C3: a running session was cancelled from outside, the relay answered
\* the first 'd', the reader left on the 'D', runProxyClient returned nil
\* in its first attempt and the supervisor has returned.
C3_Witness ==
    /\ graceful
    /\ relayD = 2
    /\ rdErr = "nil"
    /\ pxErr = "nil" /\ pxRetry = 0
    /\ supPc = "returned"
    /\ RunReturnsNil(supErr)

\* The errors of the children that have stopped with an error that is not
\* ignored, as the supervisor would return them.
FailedChildren ==
    ((IF tcpPc = "done" THEN {StoppedWith("master proxy", tcpErr)} ELSE {})
     \cup (IF pxPc = "done" THEN {StoppedWith("proxy main loop", pxErr)} ELSE {})
     \cup (IF rdPc = "done"
           THEN {StoppedWith("proxy main loop", StoppedWith("main loop reader", rdErr))}
           ELSE {})
     \cup (IF wrPc = "done"
           THEN {StoppedWith("proxy main loop", StoppedWith("main loop writer", wrErr))}
           ELSE {}))
    \ {"nil"}

\* A cause once recorded is never replaced.
CauseStays ==
    /\ sessDone => sessDone' /\ sessCause' = sessCause
    /\ childDone /\ childDone' => childCause' = childCause

\* The session got past name resolution and admission: the supervisor has
\* made the context of the session and started its children.
Supervised == tcpPc # "idle"

\* The supervisor has returned: every child is done.
AllChildrenDone ==
    supPc = "returned" /\ Supervised =>
        /\ tcpPc = "done" /\ pxPc = "done"
        /\ rdPc \in {"idle", "done"} /\ wrPc \in {"idle", "done"}

\* C8 as the specification states it: when a child has stopped with an
\* error that is not ignored, the supervisor returns the error of (the
\* first) such child; the cause is never replaced; all children are
\* cancelled.
C8_Original ==
    /\ [](supPc = "returned" /\ FailedChildren # {} => supErr \in FailedChildren)
    /\ [][CauseStays]_vars
    /\ []AllChildrenDone

\* What cancel is called with when a child of the supervisor stops in this
\* step, context.Canceled for a cancellation from outside.
FirstCancelCause ==
    LET err == IF tcpPc # "done" /\ tcpPc' = "done"
               THEN StoppedWith("master proxy", tcpErr')
               ELSE IF pxPc # "done" /\ pxPc' = "done"
               THEN StoppedWith("proxy main loop", pxErr')
               ELSE "nil"
    IN IF err = "nil" THEN "canceled" ELSE err

\* C8: the supervisor returns the cause recorded by the first cancellation
\* of the context of the session: the error of the first child to return,
\* if that error is not ignored, and context.Canceled if the context was
\* first cancelled from outside or by a child that returned nil or an
\* ignored error, whatever error another child stops with later.  A cause
\* once recorded is never replaced, and the supervisor returns only after
\* every child is done.
C8_FirstCancelWins ==
    /\ [][/\ CauseStays
          /\ ~sessDone /\ sessDone' => sessCause' = FirstCancelCause]_vars
    /\ [](supPc \in {"join", "returned"} /\ Supervised
            => sessDone /\ supErr = sessCause)
    /\ []AllChildrenDone

\* C8: the master TCP proxy failed first and its error is what the
\* supervisor returned, although the tunnel client failed to disconnect
\* afterwards.
C8_Witness ==
    /\ supPc = "returned"
    /\ supErr = "master proxy: master TCP proxy: failed to accept"
    /\ pxErr = "failed to disconnect"


(***************************************************************************)
(* Claims about the ready signal (SpecSession, SpecReady)                  *)
(***************************************************************************)
\* The handshake of the session has succeeded: the reader has been started.
Handshaken == rdPc # "idle"

\* C13 as stated: ready is signalled only once the handshake has received
\* the relay's 'K'.
C13_Original == Closed(ready) => Handshaken

\* C13 as amended: ready is signalled when the admission request has
\* succeeded, before the dial and the handshake, and stays so until the
\* session returns; a session whose name resolution or admission fails
\* never signals ready.
C13_ReadyAfterAdmission ==
    /\ supPc \in {"resolve", "connect", "returned"} => ~Closed(ready)
    /\ supPc \in {"spawn", "wait", "join"} =>
           /\ Closed(ready)
           /\ signalled[ready] = ProxyAddr(serverIP, port)
    /\ (supPc = "returned"
          /\ supErr \in {"failed to resolve server address", "failed to connect"})
           => signalled = <<>>

\* Ready is signalled and the handshake has failed.
C13_Witness ==
    /\ Closed(ready)
    /\ pxPc = "done"
    /\ pxErr = "failed to send token"
    /\ ~Handshaken
    /\ ~extDone

\* C14 as stated: a call of GetProxyAddr that does not time out returns the
\* address of the session that closed the channel it waited on; a channel is
\* closed once, by a session whose admission succeeded, with that session's
\* address, and each such session closes the channel c.ready holds then.
C14_Original ==
    /\ [](gpaPc = "returned" /\ gpaRet # "" =>
             Closed(gpaCh) /\ gpaRet = signalled[gpaCh])
    /\ [][/\ \A ch \in DOMAIN signalled :
                ch \in DOMAIN signalled' /\ signalled'[ch] = signalled[ch]
          /\ signalled' # signalled =>
                /\ DOMAIN signalled' = DOMAIN signalled \cup {ready}
                /\ signalled'[ready] = ProxyAddr(serverIP', port')]_vars

\* C14: GetProxyAddr has returned an address that is not the one of the
\* session whose ready signal woke it.
C14_Witness ==
    /\ gpaPc = "returned"
    /\ gpaRet # ""
    /\ Closed(gpaCh)
    /\ gpaRet # signalled[gpaCh]


(***************************************************************************)
(* Claims about the synthetic local IPs (SpecLocalIP)                      *)
(***************************************************************************)
\* C16: the workers of two peers with the same remote IP and different
\* ports are bound to the same synthetic local IP, also when one is made
\* after the other has gone: every worker is bound to the local IP the
\* registry holds for its remote IP, and that IP never changes.
C16_SameIPSameLocalIP ==
    /\ [](\A w \in DOMAIN workers :
             /\ workers[w].addr.ip \in DOMAIN remoteIPToLocalIP
             /\ workers[w].localIP = remoteIPToLocalIP[workers[w].addr.ip])
    /\ [](\A w1, w2 \in DOMAIN workers :
             workers[w1].addr.ip = workers[w2].addr.ip
                 => workers[w1].localIP = workers[w2].localIP)
    /\ [][\A ip \in DOMAIN remoteIPToLocalIP :
             /\ ip \in DOMAIN remoteIPToLocalIP'
             /\ remoteIPToLocalIP'[ip] = remoteIPToLocalIP[ip]]_vars

\* A worker has been made for a second port of a remote IP after the worker
\* of the first port has left the registry, with the same local IP as the
\* worker of the first port had.
C16_Witness ==
    /\ gwcLast.addr = [ip |-> 1, port |-> 2]
    /\ gwcLast.ch = 2
    /\ DOMAIN workers = {2}
    /\ DOMAIN remoteIPToLocalIP = {1}
    /\ workers[2].localIP = remoteIPToLocalIP[1]
    /\ [ip |-> 1, port |-> 1] \notin DOMAIN remoteAddrToDataCh

\* 127.0.0.1 as a 32-bit number.
Loopback1 == 2130706433

\* C17 as stated: the n-th distinct remote IP gets 127.0.0.1 plus (n-1).
C17_Original ==
    /\ [](\A ip \in DOMAIN remoteIPToLocalIP :
             remoteIPToLocalIP[ip] \in
                 Loopback1 .. Loopback1 + Cardinality(DOMAIN remoteIPToLocalIP) - 1)
    /\ [][\A ip \in DOMAIN remoteIPToLocalIP' \ DOMAIN remoteIPToLocalIP :
             remoteIPToLocalIP'[ip] =
                 Loopback1 + Cardinality(DOMAIN remoteIPToLocalIP)]_vars

\* C17: the first remote IP has got 0.0.0.0 and the second 0.0.0.1, and a
\* worker is bound to each.
C17_Witness ==
    \E w1, w2 \in DOMAIN workers :
        /\ w1 = 1
        /\ ToIP(workers[w1].localIP) = <<0, 0, 0, 0>>
        /\ ToIP(workers[w2].localIP) = <<0, 0, 0, 1>>
        /\ workers[w1].addr.ip # workers[w2].addr.ip


(***************************************************************************)
(* Claims about the codec (SpecCodec)                                      *)
(***************************************************************************)
\* The arguments are those of the round trip: an empty buffer, an IPv4
\* address, a port of 16 bits and a payload that is not empty.
RoundTripInput ==
    /\ cdIn.buf = <<>>
    /\ To4(cdIn.addr.IP) # <<>>
    /\ cdIn.addr.Port \in 0..65535
    /\ Len(cdIn.data) > 0

\* C18: DecodeAddrData(EncodeAddrData(empty, (a, p), d)) returns the address
\* (a, p) and a payload equal to d, for every IPv4 address a, port p in
\* 0..65535 and non-empty d: neither call panics, the address decoded is
\* the same IPv4 address with the same port, the payload is d.
C18_RoundTrip ==
    /\ (cdPc \in {"encoded", "decoded"} /\ RoundTripInput) => ~cdFrame.panic
    /\ (cdPc = "decoded" /\ RoundTripInput) =>
           /\ ~cdOut.panic
           /\ To4(cdOut.out.addr.IP) = To4(cdIn.addr.IP)
           /\ cdOut.out.addr.Port = cdIn.addr.Port
           /\ cdOut.out.data = cdIn.data

\* The frame of 127.0.0.1:12345 with the payload 1..8 has been decoded.
C18_Witness ==
    /\ cdPc = "decoded"
    /\ RoundTripInput
    /\ cdIn.addr = [IP |-> IPv4(127, 0, 0, 1), Port |-> 12345]
    /\ cdIn.data = <<1, 2, 3, 4, 5, 6, 7, 8>>
    /\ cdOut.out.addr.Port = 12345
    /\ cdOut.out.data = <<1, 2, 3, 4, 5, 6, 7, 8>>

\* C19: EncodeAddrData(buf, (a, p), d) returns buf, then the 4 bytes of a,
\* then p mod 256 and p div 256, then d; for 127.0.0.1:12345 and the payload
\* 1..8 the frame is 127,0,0,1,57,48,1,2,3,4,5,6,7,8.
C19_FrameLayout ==
    (cdPc \in {"encoded", "decoded"} /\ ~cdFrame.panic) =>
        LET f == cdFrame.out
            n == Len(cdIn.buf)
            p == cdIn.addr.Port
        IN /\ Len(f) = n + 6 + Len(cdIn.data)
           /\ SubSeq(f, 1, n) = cdIn.buf
           /\ SubSeq(f, n + 1, n + 4) = To4(cdIn.addr.IP)
           /\ f[n + 5] = p % 256
           /\ f[n + 6] = p \div 256
           /\ SubSeq(f, n + 7, Len(f)) = cdIn.data
           /\ (/\ cdIn.buf = <<>>
               /\ To4(cdIn.addr.IP) = <<127, 0, 0, 1>>
               /\ p = 12345
               /\ cdIn.data = <<1, 2, 3, 4, 5, 6, 7, 8>>)
                  => f = <<127, 0, 0, 1, 57, 48, 1, 2, 3, 4, 5, 6, 7, 8>>

\* The frame of the repository's test has been encoded after a buffer that
\* was not empty.
C19_Witness ==
    /\ cdPc = "encoded"
    /\ cdIn.buf = <<7>>
    /\ cdIn.addr = [IP |-> <<127, 0, 0, 1>>, Port |-> 12345]
    /\ cdFrame = Returned(<<7, 127, 0, 0, 1, 57, 48, 1, 2, 3, 4, 5, 6, 7, 8>>)

\* C20 as stated: EncodeAddrData panics exactly when the address is not an
\* IPv4 address or the payload is empty.
C20_Original ==
    cdPc \in {"encoded", "decoded"} =>
        (cdFrame.panic <=> (To4(cdIn.addr.IP) = <<>> \/ Len(cdIn.data) = 0))

\* C20: EncodeAddrData has returned a frame of the address alone for an
\* empty payload.
C20_Witness ==
    /\ cdPc = "encoded"
    /\ cdIn.buf = <<>>
    /\ cdIn.addr = [IP |-> IPv4(127, 0, 0, 1), Port |-> 12345]
    /\ cdIn.data = <<>>
    /\ cdFrame = Returned(<<127, 0, 0, 1, 57, 48>>)

\* C21 as stated: DecodeAddrData panics on every input shorter than 7
\* bytes, one of 6 bytes that holds the address alone included, and returns
\* on every input of 7 bytes or more.
C21_Original ==
    cdPc = "decoded" => (cdOut.panic <=> Len(cdIn.data) < AddrSize + 1)

\* C21: DecodeAddrData has returned the address and an empty payload for
\* the 6 bytes of an address alone.
C21_Witness ==
    /\ cdPc = "decoded"
    /\ cdIn.data = <<1, 1, 1, 1, 75, 68>>
    /\ cdOut = Returned([addr |-> [IP |-> IPv4(1, 1, 1, 1), Port |-> 75 + 68 * 256],
                         data |-> <<>>])

(***************************************************************************)
(* Claims about the user key (SpecKey)                                     *)
(***************************************************************************)
\* The string is 16 characters of the standard alphabet, line breaks, which
\* the decoder leaves out, apart: the strings that decode to 10 bytes.
RendersKey(s) ==
    LET t == stripNewlines(s) IN
    /\ Len(t) = 16
    /\ \A i \in 1..Len(t) : InSeq(StdAlphabet, t[i])

\* C22: for every key k, k.String() is 16 characters of the standard
\* base32 alphabet and UserKeyFromString(k.String()) returns k with no
\* error; the key 0, 1, ..., 9 is rendered as AAAQEAYEAUDAOCAJ.
C22_StringRoundTrip ==
    /\ ukPc = "str" => Len(ukStr) = 16 /\ RendersKey(ukStr)
    /\ (ukPc = "str" /\ ukKey = <<0, 1, 2, 3, 4, 5, 6, 7, 8, 9>>) =>
           ukStr = <<"A", "A", "A", "Q", "E", "A", "Y", "E", "A", "U", "D", "A",
                     "O", "C", "A", "J">>
    /\ (ukPc = "parsed" /\ ukFrom = "str") => ukOut = [key |-> ukKey, err |-> "nil"]

\* C22: a key with high bits in every byte has come back from its
\* rendering.
C22_Witness ==
    /\ ukPc = "parsed"
    /\ ukFrom = "str"
    /\ ukKey = <<255, 0, 170, 85, 1, 128, 64, 31, 248, 7>>
    /\ ukOut = [key |-> ukKey, err |-> "nil"]

\* C23 as stated: UserKeyFromString trims and uppercases its argument
\* before it decodes it: what it returns for a string as typed is what it
\* returns for the normalised string.
C23_Original ==
    (ukPc = "parsed" /\ ukFrom = "typed") => ukOut = UserKeyFromString(normalizeKey(ukStr))

\* A string with a lower-case letter or with a blank or a tab in it.
NotNormal(s) ==
    \E i \in 1..Len(s) : InSeq(LowerLetters, s[i]) \/ s[i] \in {" ", "\t"}

\* C23 as amended: the trimming and the uppercasing are done by
\* normalizeKey, which the application calls before UserKeyFromString: the
\* rendering of a key typed in lower case or with white space around it
\* is normalised to the rendering and then parses to the key.
\* UserKeyFromString decodes its argument as it is: for a string with a
\* lower-case letter, a blank or a tab it returns ErrInvalidKey, and it
\* returns a key exactly for the strings that are 16 characters of the
\* alphabet once the line breaks are left out.
C23_NormalizedByCaller ==
    /\ (ukPc = "norm" /\ ukKey # NoKey) => ukStr = UserKeyString(ukKey)
    /\ (ukPc = "parsed" /\ ukFrom = "norm" /\ ukKey # NoKey)
           => ukOut = [key |-> ukKey, err |-> "nil"]
    /\ (ukPc = "parsed" /\ ukFrom = "typed") =>
           /\ NotNormal(ukStr) => ukOut = [key |-> ZeroKey, err |-> ErrInvalidKey]
           /\ ukOut.err = "nil" <=> RendersKey(ukStr)

\* C23: the rendering of a key, typed in lower case after a blank, was
\* handed to UserKeyFromString as it was and was refused.
C23_Witness ==
    /\ ukPc = "parsed"
    /\ ukFrom = "typed"
    /\ ukKey = <<0, 1, 2, 3, 4, 5, 6, 7, 8, 9>>
    /\ ukStr = <<" ", "a", "a", "a", "q", "e", "a", "y", "e", "a", "u", "d", "a",
                 "o", "c", "a", "j">>
    /\ ukOut = [key |-> ZeroKey, err |-> ErrInvalidKey]

\* C24: UserKeyFromString returns nil or ErrInvalidKey and no other error;
\* for every string that is not valid base32 or does not decode to exactly
\* 10 bytes it returns the zero key and ErrInvalidKey.
C24_OnlyInvalidKey ==
    (ukPc = "parsed" /\ ukFrom # "json") =>
        /\ ukOut.err \in {"nil", ErrInvalidKey}
        /\ ~RendersKey(ukStr) => ukOut = [key |-> ZeroKey, err |-> ErrInvalidKey]

\* C24: a byte with its padding, which is valid base32, was refused.
C24_Witness ==
    /\ ukPc = "parsed"
    /\ ukFrom = "typed"
    /\ ukStr = <<"A", "A", "=", "=", "=", "=", "=", "=">>
    /\ DecodeString(ukStr) = Decoded(<<0>>)
    /\ ukOut = [key |-> ZeroKey, err |-> ErrInvalidKey]

\* C25 as stated: MarshalJSON of every key, the zero key included, is the
\* rendering of the key between quotes.
C25_Original ==
    ukPc = "json" => ukStr = <<Quote>> \o UserKeyString(ukKey) \o <<Quote>>

\* C25: the zero key was marshalled to the empty JSON string.
C25_Witness ==
    /\ ukPc = "json"
    /\ ukKey = ZeroKey
    /\ ukStr = <<Quote, Quote>>

(***************************************************************************)
(* Claims about the end of a session (SpecRegistry)                        *)
(***************************************************************************)
\* C26 as stated: when the reader has returned the registry is empty and
\* every worker of the session, the one of the master address included,
\* has ended; none of an earlier session is running when the next session
\* starts.
C26_Original ==
    /\ rdPc = "done" =>
           /\ remoteAddrToDataCh = EmptyMap
           /\ DOMAIN workers = {}
           /\ ~StillRunning(masterUDP)
    /\ rdPc = "start" => ~masterUDP.stale

\* C26: a later session is reading from the tunnel while the
\* runMasterUDPProxy of an earlier session is still running, and its own
\* could not bind 127.0.0.1:28004.
C26_Witness ==
    /\ rdPc = "read"
    /\ masterUDP = [st |-> "failed", stale |-> TRUE]
    /\ MasterAddr \in DOMAIN remoteAddrToDataCh

(***************************************************************************)
(* Claims about the dispatch of frames (SpecDispatch)                      *)
(***************************************************************************)
\* The reader holds a channel of a worker that has ended and has left the
\* registry.
HoldsOrphan ==
    /\ rdPc = "send"
    /\ gwcLast.ch \notin DOMAIN workers
    /\ gwcLast.addr \notin DOMAIN remoteAddrToDataCh

\* C27: no channel is ever closed, so the channel the reader is about to
\* send to is open, whatever the workers did since getWorkerChan returned
\* it: it is the channel of a worker that is in the registry, or one that
\* a worker that has ended left behind open.
C27_NeverSendsOnClosed ==
    /\ \A ch \in DOMAIN chans : ~IsClosed(ch)
    /\ rdPc = "send" =>
           /\ ~IsClosed(gwcLast.ch)
           /\ \/ /\ gwcLast.ch \in DOMAIN workers
                 /\ gwcLast.addr \in DOMAIN remoteAddrToDataCh
                 /\ remoteAddrToDataCh[gwcLast.addr] = gwcLast.ch
              \/ HoldsOrphan

\* C27: the worker has ended and deleted itself between the return of
\* getWorkerChan and the send.
C27_Witness == HoldsOrphan /\ nextCh > 0

(***************************************************************************)
(* Claims about the outbound queue across sessions (SpecRegistry)          *)
(***************************************************************************)
\* C28 as stated: the outbound queue and the registry of addresses are
\* fresh when a session starts, and the writer of a session writes nothing
\* that was queued in an earlier one: nothing before the tasks of its own
\* session have started.
C28_Original ==
    rdPc = "start" =>
        /\ remoteAddrToDataCh = EmptyMap
        /\ dataToServerCh = <<>>
        /\ wrWrote = ""

\* C28: in a later session, whose reader has not started and which has no
\* worker yet, the writer has written a frame to the tunnel and another
\* one of the earlier session is still in the queue.
C28_Witness ==
    /\ rdPc = "start"
    /\ nextCh > 0
    /\ DOMAIN workers = {}
    /\ remoteAddrToDataCh = EmptyMap
    /\ wrWrote = "frame"
    /\ dataToServerCh = <<"frame">>

(***************************************************************************)
(* Claims about the classification of datagrams (SpecToken)                *)
(***************************************************************************)
\* C29 as stated: a datagram is classified by its length before its first
\* byte is looked at: sendToken takes a datagram for the relay's 'K' only
\* if it is 1 to 6 bytes long, and the reader decodes exactly the
\* datagrams of 7 bytes or more as address-data frames.
C29_Original ==
    /\ tkPc = "ok" => tkLast.len \in 1..AddrSize
    /\ \A d \in ReaderDatagrams : IsAddrData(d) <=> d.len >= AddrSize + 1

\* C29: sendToken has returned nil on an address-data frame of 7 bytes
\* whose first byte, the first octet of the peer's address, is 'K'.
C29_Witness ==
    /\ tkPc = "ok"
    /\ tkLast = [len |-> AddrSize + 1, first |-> ProxyServerResponseTypeKeepAlive]
    /\ tkErr = ""


(***************************************************************************)
(* Claims about the sends of the hot path (SpecHotPath)                    *)
(***************************************************************************)
\* The read leg of the worker w has read a datagram of the game and gone
\* on to its next read: the worker is as it was, and the frame is on the
\* outbound queue unless the queue held its capacity.
WorkerQueues(w) ==
    /\ WorkerReadLeg(w)
    /\ workers' = workers
    /\ dataToServerCh' = IF Len(dataToServerCh) < OutboundCap
                         THEN Append(dataToServerCh, "frame")
                         ELSE dataToServerCh

\* The read leg of the worker w waits in conn.ReadFromUDP on an open socket.
ReadsGame(w) ==
    /\ workers[w].st = "run"
    /\ workers[w].rleg = "run"
    /\ ~workers[w].closed

\* C30: the sends of the hot path never block.  The reader in its read
\* can dispatch a frame to every peer that has a channel, whatever the
\* channels hold; the dispatch leaves the reader in its read, and it adds
\* one item to the channel of the peer unless the channel holds its
\* capacity, in which case the frame is dropped; it changes no channel of
\* another peer.  A worker that reads a datagram of the game can always go
\* on: the frame is queued, or dropped when the outbound queue holds its
\* capacity.  No channel and no queue ever holds more than its capacity.
C30_HotPathNeverBlocks ==
    /\ [](rdPc = "read" =>
            \A a \in HotPeers : HasWorkerChan(a) => ENABLED Dispatch(a))
    /\ [][\A a \in HotPeers : Dispatch(a) /\ HasWorkerChan(a) =>
            LET ch == remoteAddrToDataCh[a] IN
            /\ rdPc' = "read"
            /\ chans'[ch] = IF chans[ch] = InboundCap
                            THEN InboundCap ELSE chans[ch] + 1
            /\ \A w \in DOMAIN chans \ {ch} : chans'[w] = chans[w]]_vars
    /\ [](\A w \in DOMAIN workers : ReadsGame(w) => ENABLED WorkerQueues(w))
    /\ [](\A w \in DOMAIN chans : chans[w] <= InboundCap)
    /\ [](Len(dataToServerCh) <= OutboundCap)

\* C30: the channel of one peer holds its capacity and its worker, still
\* opening its socket, has taken nothing from it; the outbound queue holds
\* its capacity; and the last frame the reader dispatched, after all that,
\* is in the channel of another peer.
C30_Witness ==
    \E wa, wb \in DOMAIN workers :
        /\ wa < wb
        /\ workers[wa].addr # workers[wb].addr
        /\ workers[wa].st = "listen"
        /\ chans[wa] = InboundCap
        /\ workers[wb].st = "listen"
        /\ chans[wb] = 1
        /\ gwcLast = [addr |-> workers[wb].addr, ch |-> wb]
        /\ Len(dataToServerCh) = OutboundCap
        /\ rdPc = "read"


(***************************************************************************)
(* Claims about the allocation of local IPs (SpecLocalIP)                  *)
(***************************************************************************)
\* The addresses of 127.0.0.0/8 as 32-bit numbers.
LoopbackNet == 2130706432 .. 2147483647

\* C40 as the specification states it: distinct remote IPs never share a
\* local IP, a mapping once made is never changed or removed, nextLocalIP
\* is greater than every local IP given out, and every local IP given out
\* is an address of 127.0.0.0/8.
C40_Original ==
    /\ [](\A ip1, ip2 \in DOMAIN remoteIPToLocalIP :
             remoteIPToLocalIP[ip1] = remoteIPToLocalIP[ip2] => ip1 = ip2)
    /\ [][\A ip \in DOMAIN remoteIPToLocalIP :
             /\ ip \in DOMAIN remoteIPToLocalIP'
             /\ remoteIPToLocalIP'[ip] = remoteIPToLocalIP[ip]]_vars
    /\ [](\A ip \in DOMAIN remoteIPToLocalIP :
             remoteIPToLocalIP[ip] < nextLocalIP)
    /\ [](\A ip \in DOMAIN remoteIPToLocalIP :
             remoteIPToLocalIP[ip] \in LoopbackNet)

\* C40: two remote IPs have a local IP each, the two differ and are below
\* nextLocalIP, their workers have left the registry (the entry of the
\* master address is all it holds), and neither local IP
\* is an address of 127.0.0.0/8.
C40_Witness ==
    /\ Cardinality(DOMAIN remoteIPToLocalIP) = 2
    /\ \A ip1, ip2 \in DOMAIN remoteIPToLocalIP :
          /\ ip1 # ip2 => remoteIPToLocalIP[ip1] # remoteIPToLocalIP[ip2]
          /\ remoteIPToLocalIP[ip1] < nextLocalIP
          /\ remoteIPToLocalIP[ip1] \notin LoopbackNet
    /\ DOMAIN remoteAddrToDataCh = {MasterAddr}
    /\ nextCh > 0


(***************************************************************************)
(* Claims about the master address (SpecMaster)                            *)
(***************************************************************************)
\* The reader is past its first lines and has not returned.
ReaderServes == rdPc \in {"read", "probe", "send"}

\* C35: in every session, the ones started again on the same client
\* included, the address of the master is served by runMasterUDPProxy
\* only.  While the reader serves, the registry holds the channel of the
\* master under the master address; a frame from the master address goes to
\* that channel and makes no worker; no ordinary worker (handleWorker, with
\* its ephemeral port and its 30 s read deadline) is ever keyed on the
\* master address; only runMasterUDPProxy, bound to 127.0.0.1:28004, takes
\* payloads from the channel of the master, and the proxy that runs is the
\* only one that holds that address.
C35_MasterFlavoured ==
    /\ [](\A w \in DOMAIN workers : workers[w].addr # MasterAddr)
    /\ [](ReaderServes =>
            /\ MasterAddr \in DOMAIN remoteAddrToDataCh
            /\ remoteAddrToDataCh[MasterAddr] = MasterCh)
    /\ [][ReaderDatagram(MasterDatagram) =>
            /\ gwcLast' = [addr |-> MasterAddr, ch |-> MasterCh]
            /\ workers' = workers
            /\ nextCh' = nextCh
            /\ remoteAddrToDataCh' = remoteAddrToDataCh]_vars
    /\ [][rdPc' = rdPc /\ chans'[MasterCh] < chans[MasterCh] =>
            masterUDP.st = "run" /\ workers' = workers]_vars
    /\ [][rdPc = "done" /\ rdPc' = "start" =>
            /\ \A w \in DOMAIN workers' : workers'[w].addr # MasterAddr
            /\ masterUDP'.st = "idle"]_vars
    /\ [](masterUDP.st = "run" => ~masterUDP.stale)

\* C35: frames from the master address have been put into the channel of
\* the master while the second worker of an ordinary peer runs, the first
\* one having gone; runMasterUDPProxy runs, has taken a payload from the
\* channel and has filled the outbound queue, and no worker has been made
\* for the master address.
C35_Witness ==
    /\ rdPc = "read"
    /\ remoteIPToLocalIP # EmptyMap
    /\ nextCh = 2
    /\ DOMAIN workers = {2}
    /\ workers[2].addr = RegistryPeer
    /\ workers[2].st = "run"
    /\ gwcLast = [addr |-> MasterAddr, ch |-> MasterCh]
    /\ masterUDP = [st |-> "run", stale |-> FALSE]
    /\ chans[MasterCh] = 1
    /\ Len(dataToServerCh) = OutboundCap


(***************************************************************************)
(* Claims about a disconnect the relay sends of its own accord             *)
(* (SpecSession)                                                           *)
(***************************************************************************)
\* The master TCP proxy has failed by itself: it returned an error that is
\* neither a cancellation nor a closed listener.
TcpFailed == IgnoreCancelledOrClosed(tcpErr) # "nil" /\ tcpErr # ""

DrainBlocked ==
    /\ pxPc = "drain_send"
    /\ pxRetry < DrainRetries
    /\ Len(dataToServerCh) = OutboundCap
    /\ wrPc = "done"

\* C32 as the specification states it: once the context passed to Run is
\* cancelled, Run eventually returns.  Run returns when RunWithoutRetries
\* does, and RunWithoutRetries returns only after runProxyClient has (the
\* deferred wg.Wait()): so runProxyClient eventually returns.
C32_Original == extDone ~> pxPc = "done"

\* C32: the context of Run is cancelled and runProxyClient is in the first
\* send of its disconnect loop; the queue is full of frames of the game,
\* the reader, the writer and runMasterUDPProxy have returned, and
\* RunWithoutRetries waits.
C32_Witness ==
    /\ extDone
    /\ DrainBlocked
    /\ pxRetry = 0
    /\ \A i \in 1..Len(dataToServerCh) : dataToServerCh[i] = "frame"
    /\ rdPc = "done"
    /\ masterUDP.st = "done"
    /\ supPc = "wait"


\* runProxyClient has started the reader and the writer.
PxStarted == rdPc # "idle" /\ wrPc # "idle"

\* C33 as the specification states it: when the reader or the writer has
\* stopped, the other one stops too, and runProxyClient returns, not before
\* both have finished.
C33_Original ==
    /\ wrPc = "done" ~> rdPc = "done"
    /\ rdPc = "done" ~> wrPc = "done"
    /\ [](pxPc = "done" /\ PxStarted => rdPc = "done" /\ wrPc = "done")
    /\ (rdPc = "done" \/ wrPc = "done") ~> pxPc = "done"

\* C33: the writer has stopped on a failed write and the reader after it;
\* runProxyClient, which took the cancelled context of the session in its
\* select, waits in the first send of its disconnect loop with the queue
\* full.
C33_Witness ==
    /\ wrErr = "main-loop: failed to write"
    /\ childCause = "main loop writer: main-loop: failed to write"
    /\ rdPc = "done"
    /\ rdErr = "closed"
    /\ DrainBlocked
    /\ pxRetry = 0

(***************************************************************************)
(* Claims about the datagrams of the game (SpecUplink)                     *)
(***************************************************************************)
\* A frame as the relay reads it: the address in its header, as the key of
\* the registry, and the payload behind it.
HeaderOf(frame) == AddrPortV4(DecodeAddrData(frame).out.addr)
PayloadOf(frame) == DecodeAddrData(frame).out.data

\* The frames that were queued and not lost in a failed write, oldest
\* first: those the writer wrote and those still on the outbound queue.
Forwarded == relayOut \o dataToServerCh
ForwardedFor(a) == SelectSeq(Forwarded, LAMBDA f : HeaderOf(f) = a)

\* The legs that read from the game: the workers by the address of their
\* peer, and runMasterUDPProxy by the master address.
Reads(a, d) ==
    \/ \E w \in DOMAIN workers : workers[w].addr = a /\ WorkerReads(w, d)
    \/ a = MasterAddr /\ MasterReads(d)
Readers == DOMAIN fromGame

\* C36: a datagram a worker or runMasterUDPProxy reads from a sender whose
\* port is not 8888 produces no frame: the outbound queue is as it was, and
\* no frame of that peer ever carries its payload.  A datagram from port
\* 8888 that is not empty is encoded under the address of the peer and
\* offered to the outbound queue whatever the IP of its sender is: it is
\* queued whenever the queue has room.
C36_PortFilter ==
    /\ [](\A a \in Readers : \A i \in 1..Len(fromGame[a]) :
            fromGame[a][i].src.Port # 8888 =>
                \A j \in 1..Len(ForwardedFor(a)) :
                    PayloadOf(ForwardedFor(a)[j]) # fromGame[a][i].data)
    /\ [][\A a \in Readers : \A d \in GameDatagrams(a) :
            Reads(a, d) =>
                /\ d.src.Port # 8888 => dataToServerCh' = dataToServerCh
                /\ d.src.Port = 8888 /\ d.data # <<>>
                       /\ Len(dataToServerCh) < OutboundCap =>
                     dataToServerCh' =
                         Append(dataToServerCh, FrameOf(a, d.data))]_vars

\* A worker has read a datagram from port 8889 of the game's host and then
\* one from port 8888 of another host, runMasterUDPProxy one from port 8888
\* of that other host: the first left no frame, the writer has written the
\* frames of the other two.
C36_Witness ==
    /\ fromGame[[ip |-> 1, port |-> 1]] =
         <<[src |-> [IP |-> IPv4(127, 0, 0, 1), Port |-> 8889], data |-> <<1>>],
           [src |-> [IP |-> IPv4(10, 0, 0, 9), Port |-> 8888], data |-> <<2>>]>>
    /\ fromGame[MasterAddr] =
         <<[src |-> [IP |-> IPv4(10, 0, 0, 9), Port |-> 8888], data |-> <<1>>]>>
    /\ relayOut = <<FrameOf([ip |-> 1, port |-> 1], <<2>>), FrameOf(MasterAddr, <<1>>)>>
    /\ dataToServerCh = <<>>

\* s is t with some of its elements left out.
RECURSIVE IsSubsequence(_, _)
IsSubsequence(s, t) ==
    IF s = <<>> THEN TRUE
    ELSE IF t = <<>> THEN FALSE
    ELSE IF Head(s) = Head(t) THEN IsSubsequence(Tail(s), Tail(t))
    ELSE IsSubsequence(s, Tail(t))

\* The payloads the leg of a has read, and those of the frames forwarded
\* under the address of a, both in order.
PayloadsRead(a) == [i \in 1..Len(fromGame[a]) |-> fromGame[a][i].data]
PayloadsForwarded(a) ==
    [i \in 1..Len(ForwardedFor(a)) |-> PayloadOf(ForwardedFor(a)[i])]

\* C31: for every peer, the frames the writer has sent and those still on
\* the outbound queue carry, in this order, payloads in the order in which
\* the worker of the peer read them from the game, with drops allowed.  No
\* frame is there twice, and a write of the writer takes the oldest item
\* off the queue and sends it.
C31_OrderPreserved ==
    /\ [](\A a \in Readers : IsSubsequence(PayloadsForwarded(a), PayloadsRead(a)))
    /\ [](\A i, j \in 1..Len(Forwarded) : Forwarded[i] = Forwarded[j] => i = j)
    /\ [][relayOut' # relayOut =>
            /\ dataToServerCh # <<>>
            /\ relayOut' = Append(relayOut, Head(dataToServerCh))
            /\ dataToServerCh' = Tail(dataToServerCh)]_vars

\* The worker of a peer has read three datagrams of the game; the third
\* found the outbound queue full and was dropped, the writer has sent the
\* first two in their order.
C31_Witness ==
    /\ PayloadsRead([ip |-> 1, port |-> 1]) = <<<<1>>, <<2>>, <<3>>>>
    /\ \A i \in 1..3 : fromGame[[ip |-> 1, port |-> 1]][i].src = gameAddr
    /\ relayOut = <<FrameOf([ip |-> 1, port |-> 1], <<1>>),
                    FrameOf([ip |-> 1, port |-> 1], <<2>>)>>
    /\ dataToServerCh = <<>>
    /\ wrPc = "select"

(***************************************************************************)
(* Claims about the codec at work (SpecCodecUse)                           *)
(***************************************************************************)
\* C38: no call of the codec made by the proxy breaks a precondition.  Every
\* call of EncodeAddrData has an IPv4 address and a payload of at least one
\* byte (empty datagrams of the game are skipped before), every call of
\* DecodeAddrData has a tunnel datagram of at least 7 bytes, and no call
\* panics.
C38_CodecPreconditions ==
    /\ plCall.fn = "EncodeAddrData" =>
         /\ To4(plCall.addr.IP) # <<>>
         /\ Len(plCall.data) >= 1
         /\ ~plCall.panic
    /\ plCall.fn = "DecodeAddrData" =>
         /\ Len(plCall.data) >= 7
         /\ ~plCall.panic
    /\ rdPc # "panic"

\* The worker made for a decoded frame has read an empty datagram of the
\* game and then one of a byte, which it has just encoded;
\* runMasterUDPProxy has encoded a datagram as well.
C38_Witness ==
    /\ gwcLast.addr = CodecPeer
    /\ fromGame[CodecPeer] = <<[src |-> gameAddr, data |-> <<>>],
                               [src |-> gameAddr, data |-> <<2>>]>>
    /\ fromGame[MasterAddr] = <<[src |-> gameAddr, data |-> <<1>>]>>
    /\ plCall = EncodeCall(RemoteAddr(CodecPeer), <<2>>)
    /\ dataToServerCh = <<FrameOf(MasterAddr, <<1>>), FrameOf(CodecPeer, <<2>>)>>

(***************************************************************************)
(* Claims about the payloads between the peers (SpecDownlink)              *)
(***************************************************************************)
\* The bytes of the header of a frame, and the datagrams the worker of the
\* address with these bytes has read from the game.
HeaderBytes(frame) == SubSeq(frame, 1, AddrSize)
ReadUnder(hdr) ==
    UNION {{fromGame[a][i].data : i \in 1..Len(fromGame[a])} :
             a \in {b \in DOMAIN fromGame : HeaderFor(b) = hdr}}

\* C39: payloads never cross between peers.  What a worker writes to the
\* game came in a frame whose header is the address of that worker, and so
\* did every payload that waits in its channel; every frame on the outbound
\* queue carries the address of the worker that read its payload from the
\* game.
C39_NoCrossing ==
    /\ toGame # NoWrite => toGame.hdr = toGame.by
    /\ \A w \in DOMAIN workers : \A i \in 1..Len(inbound[w]) :
         inbound[w][i].hdr = HeaderFor(workers[w].addr)
    /\ \A j \in 1..Len(dataToServerCh) :
         PayloadOf(dataToServerCh[j]) \in ReadUnder(HeaderBytes(dataToServerCh[j]))

\* Two peers of one IP, a worker each: the first has written a payload to
\* the game, one of the second waits in its channel, and the answers of
\* the game to the two, both read, are on the outbound queue.
C39_Witness ==
    /\ DOMAIN workers = {1, 2}
    /\ workers[1].addr = [ip |-> 1, port |-> 1]
    /\ workers[2].addr = [ip |-> 1, port |-> 2]
    /\ workers[1].localIP = workers[2].localIP
    /\ toGame.by = <<0, 0, 0, 1, 1, 0>>
    /\ Len(inbound[2]) = 1
    /\ dataToServerCh = <<FrameOf([ip |-> 1, port |-> 2], <<1>>),
                          FrameOf([ip |-> 1, port |-> 1], <<2>>)>>

(***************************************************************************)
(* Claims about c.mut (SpecLock)                                           *)
(***************************************************************************)
\* Where a task reads or writes a map of the registry, and where it does
\* socket I/O, waits on a channel or a WaitGroup, or sleeps.
MapAccessPcs == {"register", "lookup", "exit_reset", "delete"}
BlockingPcs == {"read", "probe", "exit_wait", "handle"}
TouchesMaps(t) == lkPc[t] \in MapAccessPcs

\* C37 as stated: no task reads or writes the maps of the registry without
\* holding c.mut, and no task does socket I/O, a blocking channel operation
\* or a sleep while it holds it.
C37_Original ==
    \A t \in LockTasks :
        /\ TouchesMaps(t) => mut = t
        /\ mut = t => lkPc[t] \notin BlockingPcs

\* C37: every access to the maps of the registry is made under c.mut, but
\* for one: the reader writes the entry of the master address at its start
\* without the mutex, at a time when no goroutine of a worker exists.  So
\* no two tasks are ever at the maps at once, and a task that holds the
\* mutex is at a lookup, an insert, a delete or the reset of the map, never
\* at socket I/O, a blocking channel operation or a sleep.
C37_MutexDiscipline ==
    /\ \A t \in LockTasks :
         /\ TouchesMaps(t) =>
              \/ mut = t
              \/ /\ t = "reader"
                 /\ lkPc[t] = "register"
                 /\ \A w \in WorkerTasks : lkPc[w] = "idle"
         /\ mut = t => TouchesMaps(t) /\ lkPc[t] \notin BlockingPcs
    /\ Cardinality({t \in LockTasks : TouchesMaps(t)}) <= 1

\* The reader holds the mutex in getWorkerChan while the goroutine of one
\* worker waits for it to delete its entry and another worker is at its
\* sockets.
C37_Witness ==
    /\ mut = "reader"
    /\ lkPc["reader"] = "lookup"
    /\ lkPc["w1"] = "wlock"
    /\ lkPc["w2"] = "handle"

====
